---- MODULE Spec2Model ----
(***************************************************************************)
(* Verification model of the server-side bookkeeping of the kidney         *)
(* nutrition analyzer: the fixed-window rate limiter (lib/rate-limit), the *)
(* rate-limit gate of POST /api/analyze and POST /api/meals, and the push  *)
(* subscription registry with its subscribe route.                         *)
(*                                                                         *)
(* Time is Date.now() in milliseconds.  The window length, the request     *)
(* limits and the sweep period are scaled down to small numbers so that    *)
(* windows fill, expire and are swept inside the explored horizon.         *)
(***************************************************************************)
EXTENDS Integers, Sequences, FiniteSets, Bags, TLC

\* ------------------------------------------------------------------ bounds
\* last clock value explored
MaxTime == 5
\* scaled RATE_LIMIT_CONFIG.maxRequests of /api/analyze (20 in the source)
AnalyzeMaxRequests == 2
\* scaled RATE_LIMIT_CONFIG.maxRequests of /api/meals (30 in the source)
MealsMaxRequests == 3
\* scaled RATE_LIMIT_CONFIG.windowMs (60 * 1000 in the source)
WindowMs == 2
\* scaled period of the cleanup timer (5 * 60 * 1000 in the source)
SweepIntervalMs == 3
\* calls of checkRateLimit explored per identifier and window
MaxCallsPerWindow == 4

\* ------------------------------------------------------------- rate limiter
VARIABLES
  now,             \* Date.now()
  rateLimitStore,  \* the Map<string, RateLimitEntry>: a function on its keys
  sweepDue,        \* when the setInterval callback is next due
  lastCall,        \* the last checkRateLimit call: identifier, time, entry found, result
  winEnd,          \* history: end of the window the last call fell in, per identifier
  winCalls,        \* history: calls made in that window, per identifier
  winPermits,      \* history: calls permitted in that window, per identifier
  permitLog        \* history: per identifier, the number of calls permitted at each of
                   \* the times now - windowMs .. now (index 1 is the oldest)

rlVars == <<now, rateLimitStore, sweepDue, lastCall, winEnd, winCalls, winPermits, permitLog>>

\* state of the two route handlers
VARIABLES
  apiKey,        \* process.env.ANTHROPIC_API_KEY is set
  inflight,      \* the bag of suspended handlers: route, await, gate history
  lastResponse,  \* the response sent last, with the history of its request
  run,           \* one request followed through its handler: where it is, its body,
                 \* the upstream calls made for it, what the upstream call gave,
                 \* and the response
  twin           \* a second execution of the followed request, in which the
                 \* exception caught differs only in what it says

httpVars == <<apiKey, inflight, lastResponse, run, twin>>

\* state of the push subscription registry and its routes
VARIABLES
  vapidConfigured,  \* both VAPID keys are set in the environment
  subscriptions,    \* the Map<string, PushSubscription>: a function on its keys
  lastPush,         \* the last registry operation or route request, with its result
  shadow,           \* history: per id, what the last save or remove on it left
  anonIds           \* history: per endpoint, the ids that POST subscribe requests
                    \* without userId have stored it under

pushVars == <<vapidConfigured, subscriptions, lastPush, shadow, anonIds>>

\* state of the browser
VARIABLES
  page  \* the page or service worker followed: its localStorage, its React
        \* state, its timers and the requests it has under way

pageVars == <<page>>

\* no page is open
NoPage == [name |-> "none"]

\* the identifiers the two routes pass: `analyze:${clientId}`, `meals:${clientId}`
Identifiers == {<<"analyze", "10.0.0.1">>, <<"meals", "10.0.0.1">>}

RATE_LIMIT_CONFIG(route) ==
  IF route = "analyze"
    THEN [maxRequests |-> AnalyzeMaxRequests, windowMs |-> WindowMs]
    ELSE [maxRequests |-> MealsMaxRequests, windowMs |-> WindowMs]

ConfigOf(identifier) == RATE_LIMIT_CONFIG(identifier[1])

\* Map.set and Map.delete on a function whose domain is the set of keys
MapSet(map, key, value) ==
  [k \in (DOMAIN map) \cup {key} |-> IF k = key THEN value ELSE map[k]]

MapDelete(map, keys) == [k \in (DOMAIN map) \ keys |-> map[k]]

EmptyMap == [k \in {} |-> 0]

\* entry.resetTime < now
WindowExpired(entry, t) == entry.resetTime < t

\* variant: the fresh entry does not count the call that creates it
FreshEntryUncounted(config, t) == [count |-> 0, resetTime |-> t + config.windowMs]

\* { count: 1, resetTime: now + config.windowMs }
FreshEntry(config, t) == [count |-> 1, resetTime |-> t + config.windowMs]

\* variant: the limit is reached one call early
LimitExceededEarly(entry, config) == entry.count + 1 >= config.maxRequests

\* variant: the comparison is strict
LimitExceededStrict(entry, config) == entry.count > config.maxRequests

\* entry.count >= config.maxRequests
LimitExceeded(entry, config) == entry.count >= config.maxRequests

\* variant: a denied call is counted too
DeniedStoreCounting(store, key) ==
  [store EXCEPT ![key] = [@ EXCEPT !.count = @ + 1]]

\* the store after the deny branch: the branch returns without writing
DeniedStore(store, key) == store

\* variant: the increment is lost
IncrementedEntryLost(entry) == entry

\* entry.count++
IncrementedEntry(entry) == [entry EXCEPT !.count = @ + 1]

\* the result of the permitting branch that increments
PermitResult(entry, config) ==
  [success |-> TRUE, remaining |-> config.maxRequests - entry.count,
   resetTime |-> entry.resetTime]

\* checkRateLimit(identifier, config) run at time t on `store`:
\* the store it leaves and the result it returns
checkRateLimit(store, identifier, config, t) ==
  IF identifier \notin DOMAIN store \/ WindowExpired(store[identifier], t)
    THEN [store |-> MapSet(store, identifier, FreshEntry(config, t)),
          result |-> [success |-> TRUE, remaining |-> config.maxRequests - 1,
                      resetTime |-> t + config.windowMs]]
    ELSE IF LimitExceeded(store[identifier], config)
      THEN [store |-> DeniedStore(store, identifier),
            result |-> [success |-> FALSE, remaining |-> 0,
                        resetTime |-> store[identifier].resetTime]]
      ELSE LET e == IncrementedEntry(store[identifier])
           IN [store |-> MapSet(store, identifier, e),
               result |-> PermitResult(e, config)]

\* variant: the sweep also deletes the entries that end at t
SweptKeysInclusive(store, t) == {k \in DOMAIN store : store[k].resetTime <= t}

\* the keys the cleanup callback deletes at time t
SweptKeys(store, t) == {k \in DOMAIN store : store[k].resetTime < t}

\* what rateLimitStore.get(key) returned, as a record (found = FALSE: undefined)
Lookup(store, key) ==
  IF key \in DOMAIN store
    THEN [found |-> TRUE, count |-> store[key].count, resetTime |-> store[key].resetTime]
    ELSE [found |-> FALSE, count |-> 0, resetTime |-> 0]

NoCall == [identifier |-> <<"none", "none">>, time |-> 0,
           prior |-> [found |-> FALSE, count |-> 0, resetTime |-> 0],
           result |-> [success |-> FALSE, remaining |-> 0, resetTime |-> 0]]

\* the clock advances
Tick ==
  /\ now < MaxTime
  /\ now' = now + 1
  /\ permitLog' = [k \in Identifiers |-> Append(Tail(permitLog[k]), 0)]
  /\ UNCHANGED <<rateLimitStore, sweepDue, lastCall, winEnd, winCalls, winPermits, httpVars, pushVars, pageVars>>

\* the setInterval callback: deletes every entry with resetTime < now
CleanupSweep ==
  /\ now >= sweepDue
  /\ rateLimitStore' = MapDelete(rateLimitStore, SweptKeys(rateLimitStore, now))
  /\ sweepDue' = sweepDue + SweepIntervalMs
  /\ UNCHANGED <<now, lastCall, winEnd, winCalls, winPermits, permitLog, httpVars, pushVars, pageVars>>

\* a window opens with a call made when the identifier has no window or the
\* last one has ended (history, kept without reading the store)
OpensWindow(identifier, t) == winEnd[identifier] < t

\* the history of windows after a call on `identifier` at time t with `result`
WinEndAfter(identifier, t) ==
  IF OpensWindow(identifier, t)
    THEN [winEnd EXCEPT ![identifier] = t + ConfigOf(identifier).windowMs]
    ELSE winEnd

WinPermitsAfter(identifier, t, result) ==
  LET permitted == IF result.success THEN 1 ELSE 0
  IN [winPermits EXCEPT ![identifier] =
        IF OpensWindow(identifier, t) THEN permitted ELSE @ + permitted]

\* checkRateLimit(identifier, ConfigOf(identifier)) run at the current time on
\* the store, with the history of windows it leaves
CheckRateLimitStep(identifier) ==
  LET config == ConfigOf(identifier)
      out == checkRateLimit(rateLimitStore, identifier, config, now)
      opens == OpensWindow(identifier, now)
      permitted == IF out.result.success THEN 1 ELSE 0
  IN /\ opens \/ winCalls[identifier] < MaxCallsPerWindow
     /\ rateLimitStore' = out.store
     /\ lastCall' = [identifier |-> identifier, time |-> now,
                     prior |-> Lookup(rateLimitStore, identifier), result |-> out.result]
     /\ winEnd' = WinEndAfter(identifier, now)
     /\ winCalls' = [winCalls EXCEPT ![identifier] = IF opens THEN 1 ELSE @ + 1]
     /\ winPermits' = WinPermitsAfter(identifier, now, out.result)
     /\ permitLog' = [permitLog EXCEPT ![identifier][Len(permitLog[identifier])] =
                        @ + permitted]
     /\ UNCHANGED <<now, sweepDue>>

\* one call checkRateLimit(identifier, ConfigOf(identifier)) at the current time
CheckRateLimitCall(identifier) ==
  /\ CheckRateLimitStep(identifier)
  /\ UNCHANGED <<httpVars, pushVars, pageVars>>

\* ------------------------------------- POST /api/analyze and POST /api/meals
\* the handlers that can be suspended at once
NumRequests == 2

MAX_IMAGE_SIZE_BYTES == 10 * 1024 * 1024
MAX_IMAGES == 4
\* variant: image/bmp is allowed too
ALLOWED_MEDIA_TYPES_WithBmp == {"image/jpeg", "image/png", "image/gif", "image/webp", "image/bmp"}

ALLOWED_MEDIA_TYPES == {"image/jpeg", "image/png", "image/gif", "image/webp"}
MsPerSecond == 1000
\* the clock may advance by this much between checkRateLimit's Date.now() and
\* the handler's own Date.now() for the Retry-After header
MaxGateDelay == 1

\* the header sets explored, all of one client behind different proxies:
\* x-forwarded-for as the list split(',') yields, each element already trimmed;
\* "" and <<>> stand for an absent header
HeaderSets ==
  { [forwarded |-> <<>>, realIp |-> "10.0.0.1"],
    [forwarded |-> <<"10.0.0.1", "172.16.0.9">>, realIp |-> "172.16.0.9"] }

getClientIdentifier(headers) ==
  IF headers.forwarded # <<>> THEN headers.forwarded[1]
  ELSE IF headers.realIp # "" THEN headers.realIp
  ELSE "unknown-client"

\* `analyze:${clientId}` and `meals:${clientId}`
RateLimitKey(route, clientId) == <<route, clientId>>

\* Math.ceil(a / b) for b > 0
CeilDiv(a, b) == -((-a) \div b)

\* the 429 response of the gate; t2 is the handler's own Date.now()
TooManyRequests(result, t2) ==
  [status |-> 429,
   retryAfter |-> <<CeilDiv(result.resetTime - t2, MsPerSecond)>>,
   rateLimitRemaining |-> <<0>>]

\* a response without rate-limit headers
Reply(status) == [status |-> status, retryAfter |-> <<>>, rateLimitRemaining |-> <<>>]

\* variant: the gate only reports, it never refuses
GateRefusesNever(result) == FALSE

\* if (!rateLimitResult.success) return 429
GateRefuses(result) == ~result.success

\* -- bodies of /api/analyze: an image is what the checks read of it
GoodImage == [isString |-> TRUE, length |-> 48213, matches |-> TRUE, mediaType |-> "image/png"]
BmpImage == [GoodImage EXCEPT !.mediaType = "image/bmp"]
HugeImage == [GoodImage EXCEPT !.length = 14050919]
MalformedImage == [GoodImage EXCEPT !.matches = FALSE, !.mediaType = ""]
NonStringImage == [isString |-> FALSE, length |-> 0, matches |-> FALSE, mediaType |-> ""]
BadImages == {BmpImage, HugeImage, MalformedImage, NonStringImage}

\* body.images when it is an array, else [body.image] when that is a non-empty
\* string, else []
ImageArray(body) ==
  IF body.imagesIsArray THEN body.images
  ELSE IF body.hasImage /\ body.image.isString /\ body.image.length > 0 THEN <<body.image>>
  ELSE <<>>

ArrayBody(images) ==
  [parses |-> TRUE, imagesIsArray |-> TRUE, images |-> images,
   hasImage |-> FALSE, image |-> NonStringImage]

LegacyBody(image) ==
  [parses |-> TRUE, imagesIsArray |-> FALSE, images |-> <<>>,
   hasImage |-> TRUE, image |-> image]

UnparsableBody == [ArrayBody(<<>>) EXCEPT !.parses = FALSE]

AnalyzeBodies ==
  {ArrayBody([i \in 1..n |-> GoodImage]) : n \in 0..(MAX_IMAGES + 1)}
    \cup {ArrayBody(<<bad>>) : bad \in BadImages}
    \cup {ArrayBody(<<GoodImage, bad>>) : bad \in BadImages}
    \cup {LegacyBody(GoodImage), LegacyBody(BmpImage), LegacyBody(NonStringImage),
          UnparsableBody}

\* the checks of one image of the loop: 0 when it is accepted
ImageStatus(image) ==
  IF ~image.isString THEN 400
  ELSE IF image.length * 100 > MAX_IMAGE_SIZE_BYTES * 134 THEN 400
  ELSE IF ~image.matches THEN 400
  ELSE IF image.mediaType \notin ALLOWED_MEDIA_TYPES THEN 400
  ELSE 0

\* the loop over imageArray: the status of the first image refused, else 0
RECURSIVE ImagesStatus(_)
ImagesStatus(images) ==
  IF images = <<>> THEN 0
  ELSE IF ImageStatus(Head(images)) # 0 THEN ImageStatus(Head(images))
  ELSE ImagesStatus(Tail(images))

\* variant: the limit on the number of images is off by one
AnalyzeValidateOffByOne(body, keySet) ==
  IF ~body.parses THEN 500
  ELSE IF Len(ImageArray(body)) = 0 THEN 400
  ELSE IF Len(ImageArray(body)) > MAX_IMAGES + 1 THEN 400
  ELSE IF ~keySet THEN 500
  ELSE ImagesStatus(ImageArray(body))

\* the handler of /api/analyze from the body to the upstream call: the status
\* it answers with, 0 when it goes on to call the model
AnalyzeValidate(body, keySet) ==
  IF ~body.parses THEN 500
  ELSE IF Len(ImageArray(body)) = 0 THEN 400
  ELSE IF Len(ImageArray(body)) > MAX_IMAGES THEN 400
  ELSE IF ~keySet THEN 500
  ELSE ImagesStatus(ImageArray(body))

AnalyzeOutcomes == {"text", "no_text_block", "api_401", "api_429", "api_other", "throws"}

\* /api/analyze after the upstream call returned or threw
AnalyzeResult(outcome) ==
  CASE outcome = "text" -> 200
    [] outcome = "no_text_block" -> 500
    [] outcome = "api_401" -> 500
    [] outcome = "api_429" -> 503
    [] outcome = "api_other" -> 503
    [] OTHER -> 500

\* -- bodies of /api/meals: mealType as the characters of String(mealType),
\* <<>> for a falsy value
UpperCase == <<"A", "B", "C", "D", "E", "F", "G", "H", "I", "J", "K", "L", "M",
               "N", "O", "P", "Q", "R", "S", "T", "U", "V", "W", "X", "Y", "Z">>
LowerCase == <<"a", "b", "c", "d", "e", "f", "g", "h", "i", "j", "k", "l", "m",
               "n", "o", "p", "q", "r", "s", "t", "u", "v", "w", "x", "y", "z">>
WhiteSpace == {" ", "\t", "\n"}

toLowerCase(str) ==
  [i \in 1..Len(str) |->
     IF \E j \in 1..26 : UpperCase[j] = str[i]
       THEN LowerCase[CHOOSE j \in 1..26 : UpperCase[j] = str[i]]
       ELSE str[i]]

RECURSIVE trimStart(_)
trimStart(str) ==
  IF str # <<>> /\ Head(str) \in WhiteSpace THEN trimStart(Tail(str)) ELSE str

RECURSIVE trimEnd(_)
trimEnd(str) ==
  IF str # <<>> /\ str[Len(str)] \in WhiteSpace
    THEN trimEnd(SubSeq(str, 1, Len(str) - 1)) ELSE str

trim(str) == trimEnd(trimStart(str))

ALLOWED_MEAL_TYPES ==
  { <<"b", "r", "e", "a", "k", "f", "a", "s", "t">>, <<"l", "u", "n", "c", "h">>,
    <<"d", "i", "n", "n", "e", "r">>, <<"s", "n", "a", "c", "k", "s">> }

MealTypes ==
  ALLOWED_MEAL_TYPES \cup
  { <<>>, <<"B", "R", "E", "A", "K", "F", "A", "S", "T", " ">>, <<" ", "L", "u", "n", "c", "h">>,
    <<"d", "e", "s", "s", "e", "r", "t">>, <<"l", "u", "n", " ", "c", "h">> }

MealsBodies ==
  {[parses |-> TRUE, mealType |-> m] : m \in MealTypes}
    \cup {[parses |-> FALSE, mealType |-> <<>>]}

\* variant: every meal type is let through
MealsValidateUnlisted(body, keySet) ==
  IF ~body.parses THEN 500
  ELSE IF body.mealType = <<>> THEN 400
  ELSE IF ~keySet THEN 500
  ELSE 0

\* the handler of /api/meals from the body to the upstream call
MealsValidate(body, keySet) ==
  IF ~body.parses THEN 500
  ELSE IF body.mealType = <<>> THEN 400
  ELSE IF trim(toLowerCase(body.mealType)) \notin ALLOWED_MEAL_TYPES THEN 400
  ELSE IF ~keySet THEN 500
  ELSE 0

MealsOutcomes == {"json", "not_json", "no_text_block", "api_401", "api_429", "api_other", "throws"}

\* /api/meals after the upstream call returned or threw
MealsResult(outcome) ==
  CASE outcome = "json" -> 200
    [] outcome = "not_json" -> 500
    [] outcome = "no_text_block" -> 500
    [] outcome = "api_401" -> 503
    [] outcome = "api_429" -> 503
    [] outcome = "api_other" -> 503
    [] OTHER -> 500

NoResponse ==
  [route |-> "none", refused |-> FALSE, validated |-> FALSE, upstream |-> 0,
   response |-> Reply(0)]

\* a suspended handler: the route, the await it is suspended in, and whether
\* checkRateLimit refused its request
Suspended(route, pc, refused) == [route |-> route, pc |-> pc, refused |-> refused]

\* the response to request `req` is sent
Respond(req, validated, upstream, response) ==
  lastResponse' = [route |-> req.route, refused |-> req.refused, validated |-> validated,
                   upstream |-> upstream, response |-> response]

\* a request arrives and its handler runs to its first await: the rate-limit
\* gate, then either the 429 response or the suspension in request.json()
Gate(route, identifier) ==
  LET out == checkRateLimit(rateLimitStore, identifier, RATE_LIMIT_CONFIG(route), now)
      req == Suspended(route, "body", ~out.result.success)
  IN /\ rateLimitStore' = out.store
     /\ winEnd' = WinEndAfter(identifier, now)
     /\ winPermits' = WinPermitsAfter(identifier, now, out.result)
     /\ IF GateRefuses(out.result)
          THEN \E t2 \in now..(now + MaxGateDelay) :
                 /\ t2 <= MaxTime
                 /\ now' = t2
                 /\ Respond(req, FALSE, 0, TooManyRequests(out.result, t2))
                 /\ UNCHANGED inflight
          ELSE /\ BagCardinality(inflight) < NumRequests
               /\ now' = now
               /\ inflight' = inflight (+) SetToBag({req})
               /\ UNCHANGED lastResponse
     /\ UNCHANGED <<apiKey, run, twin, sweepDue, lastCall, winCalls, permitLog, pushVars, pageVars>>

\* the identifiers the requests explored are limited under on `route`
RequestIdentifiers(route) ==
  {RateLimitKey(route, getClientIdentifier(headers)) : headers \in HeaderSets}

AnalyzeGate == \E identifier \in RequestIdentifiers("analyze") : Gate("analyze", identifier)

MealsGate == \E identifier \in RequestIdentifiers("meals") : Gate("meals", identifier)

\* request.json() of `req` has resolved or thrown: the handler validates and
\* either answers or suspends in the upstream call
AfterBody(req, status) ==
  /\ BagIn(req, inflight)
  /\ IF status # 0
       THEN /\ inflight' = inflight (-) SetToBag({req})
            /\ Respond(req, TRUE, 0, Reply(status))
       ELSE /\ inflight' = (inflight (-) SetToBag({req}))
                             (+) SetToBag({[req EXCEPT !.pc = "upstream"]})
            /\ UNCHANGED lastResponse
  /\ UNCHANGED <<apiKey, run, twin, rlVars, pushVars, pageVars>>

\* what the explored bodies and upstream outcomes make the handlers answer
\* (0: go on to the upstream call), by whether the API key is set
AnalyzeBodyStatuses ==
  [keySet \in BOOLEAN |-> {AnalyzeValidate(body, keySet) : body \in AnalyzeBodies}]

MealsBodyStatuses ==
  [keySet \in BOOLEAN |-> {MealsValidate(body, keySet) : body \in MealsBodies}]

AnalyzeUpstreamStatuses == {AnalyzeResult(outcome) : outcome \in AnalyzeOutcomes}

MealsUpstreamStatuses == {MealsResult(outcome) : outcome \in MealsOutcomes}

AnalyzeBody ==
  \E refused \in BOOLEAN,
     status \in AnalyzeBodyStatuses[apiKey] :
    AfterBody(Suspended("analyze", "body", refused), status)

MealsBody ==
  \E refused \in BOOLEAN,
     status \in MealsBodyStatuses[apiKey] :
    AfterBody(Suspended("meals", "body", refused), status)

\* anthropic.messages.create of `req` has resolved or thrown: the handler answers
AfterUpstream(req, status) ==
  /\ BagIn(req, inflight)
  /\ inflight' = inflight (-) SetToBag({req})
  /\ Respond(req, TRUE, 1, Reply(status))
  /\ UNCHANGED <<apiKey, run, twin, rlVars, pushVars, pageVars>>

AnalyzeUpstream ==
  \E refused \in BOOLEAN,
     status \in AnalyzeUpstreamStatuses :
    AfterUpstream(Suspended("analyze", "upstream", refused), status)

MealsUpstream ==
  \E refused \in BOOLEAN,
     status \in MealsUpstreamStatuses :
    AfterUpstream(Suspended("meals", "upstream", refused), status)

\* -- one request to /api/analyze followed from its arrival to its response
\* the length of "data:" + mediaType + ";base64," for the matched media types
PrefixLength(mediaType) ==
  CASE mediaType = "image/jpeg" -> 23
    [] mediaType = "image/png" -> 22
    [] mediaType = "image/bmp" -> 22
    [] OTHER -> 0

\* images at the size check: the longest data URL the check admits and those
\* around 10 MB of decoded data
LongestAdmittedImage == [GoodImage EXCEPT !.length = 14050918]
TenMegabyteImage == [GoodImage EXCEPT !.length = 13981012 + PrefixLength("image/png")]
HugeBmpImage == [BmpImage EXCEPT !.length = 14050919]
JpegImage == [GoodImage EXCEPT !.mediaType = "image/jpeg"]

FollowedImages ==
  BadImages \cup {HugeBmpImage, LongestAdmittedImage, TenMegabyteImage, JpegImage}

\* `image` put at position i among n images, the others good
ImagesWith(image, i, n) == [k \in 1..n |-> IF k = i THEN image ELSE GoodImage]

FollowedBodies ==
  {ArrayBody([i \in 1..n |-> GoodImage]) : n \in 0..(MAX_IMAGES + 2)}
    \cup {ArrayBody(ImagesWith(image, i, n)) :
            image \in FollowedImages, i \in 1..MAX_IMAGES, n \in {1, MAX_IMAGES}}
    \cup {ArrayBody(ImagesWith(BmpImage, MAX_IMAGES + 1, MAX_IMAGES + 1)),
          ArrayBody(<<NonStringImage, BmpImage>>), ArrayBody(<<HugeImage, BmpImage>>),
          LegacyBody(GoodImage), LegacyBody(BmpImage), LegacyBody(NonStringImage),
          UnparsableBody}

\* the responses of the handlers: status, the error message of an error body,
\* and the fields of a success body (strings as sequences of characters)
ErrorResponse(status, error) ==
  [status |-> status, error |-> error, verdict |-> <<>>, summary |-> <<>>, analysis |-> <<>>]

\* what the upstream call gave: a text block (with the sections it was made of,
\* when it was made of the three sections), no text block, or a thrown error
NoError == [class |-> "none", status |-> 0, message |-> ""]

NoOutcome == [kind |-> "none", text |-> <<>>, made |-> <<>>, error |-> NoError]

NoRun == [route |-> "none", pc |-> "idle", body |-> UnparsableBody, calls |-> 0,
          prompt |-> <<>>, outcome |-> NoOutcome, response |-> ErrorResponse(0, "")]

\* variant: the images are checked before the API key is read
AnalyzeRefusalImagesFirst(body, keySet) ==
  IF ~body.parses THEN ErrorResponse(500, "Failed to analyze image. Please try again.")
  ELSE IF Len(ImageArray(body)) = 0 THEN ErrorResponse(400, "No images provided")
  ELSE IF Len(ImageArray(body)) > MAX_IMAGES THEN ErrorResponse(400, "Maximum 4 images allowed")
  ELSE IF ImagesStatus(ImageArray(body)) # 0 THEN ErrorResponse(400, "Invalid image format")
  ELSE ErrorResponse(500, "API key not configured on server")

\* the response of /api/analyze to a body it refuses before the upstream call
AnalyzeRefusal(body, keySet) ==
  IF ~body.parses THEN ErrorResponse(500, "Failed to analyze image. Please try again.")
  ELSE IF Len(ImageArray(body)) = 0 THEN ErrorResponse(400, "No images provided")
  ELSE IF Len(ImageArray(body)) > MAX_IMAGES THEN ErrorResponse(400, "Maximum 4 images allowed")
  ELSE IF ~keySet THEN ErrorResponse(500, "API key not configured on server")
  ELSE LET first == CHOOSE i \in 1..Len(ImageArray(body)) :
                      /\ ImageStatus(ImageArray(body)[i]) # 0
                      /\ \A j \in 1..(i - 1) : ImageStatus(ImageArray(body)[j]) = 0
           image == ImageArray(body)[first]
       IN IF ~image.isString THEN ErrorResponse(400, "Invalid image format")
          ELSE IF image.length * 100 > MAX_IMAGE_SIZE_BYTES * 134
            THEN ErrorResponse(400, "One or more images too large. Maximum size is 10MB per image")
          ELSE IF ~image.matches THEN ErrorResponse(400, "Invalid image format")
          ELSE ErrorResponse(400, "Unsupported image format. Use JPEG, PNG, GIF, or WebP")

\* a request to /api/analyze arrives while no followed request is under way: the
\* rate-limit gate, then the 429 response or the suspension in request.json()
AnalyzeStart(identifier) ==
  LET out == checkRateLimit(rateLimitStore, identifier, RATE_LIMIT_CONFIG("analyze"), now)
  IN /\ run.pc \in {"idle", "done"}
     /\ rateLimitStore' = out.store
     /\ winEnd' = WinEndAfter(identifier, now)
     /\ winPermits' = WinPermitsAfter(identifier, now, out.result)
     /\ run' = IF GateRefuses(out.result)
                 THEN [NoRun EXCEPT !.route = "analyze", !.pc = "done",
                         !.response = ErrorResponse(429, "Too many requests. Please try again later.")]
                 ELSE [NoRun EXCEPT !.route = "analyze", !.pc = "body"]
     /\ UNCHANGED <<now, apiKey, inflight, lastResponse, twin, sweepDue, lastCall, winCalls,
                    permitLog, pushVars, pageVars>>

\* request.json() has resolved to `body` or thrown: the handler validates it and
\* answers, or calls anthropic.messages.create and is suspended in it
AnalyzeReadBody(body) ==
  /\ run.pc = "body"
  /\ run' = IF AnalyzeValidate(body, apiKey) # 0
              THEN [run EXCEPT !.pc = "done", !.body = body,
                      !.response = AnalyzeRefusal(body, apiKey)]
              ELSE [run EXCEPT !.pc = "upstream", !.body = body, !.calls = @ + 1]
  /\ UNCHANGED <<apiKey, inflight, lastResponse, twin, rlVars, pushVars, pageVars>>

\* -- the parser of the model's text in /api/analyze
VerdictLabel == <<"v", "e", "r", "d", "i", "c", "t", ":">>
SummaryLabel == <<"s", "u", "m", "m", "a", "r", "y", ":">>
AnalysisLabel == <<"a", "n", "a", "l", "y", "s", "i", "s", ":">>
VerdictTokens == {<<"s", "a", "f", "e">>, <<"c", "a", "u", "t", "i", "o", "n">>, <<"a", "v", "o", "i", "d">>}
DefaultVerdict == <<"c", "a", "u", "t", "i", "o", "n">>
DefaultSummary == <<"A", "n", "a", "l", "y", "s", "i", "s", " ", "c", "o", "m", "p", "l", "e", "t", "e", ".">>
BlankLine == <<"\n", "\n">>

\* `word` (given in lower case) stands at position i of text, letter case ignored
MatchAt(text, i, word) ==
  /\ i + Len(word) - 1 <= Len(text)
  /\ toLowerCase(SubSeq(text, i, i + Len(word) - 1)) = word

\* where a greedy \s* that starts at position i stops
RECURSIVE SkipSpace(_, _)
SkipSpace(text, i) ==
  IF i <= Len(text) /\ text[i] \in WhiteSpace THEN SkipSpace(text, i + 1) ELSE i

Least(S) == CHOOSE x \in S : \A y \in S : x <= y
Greatest(S) == CHOOSE x \in S : \A y \in S : x >= y

\* responseText.match(/VERDICT:\s*(safe|caution|avoid)/i): group 1 of the
\* leftmost match, <<>> for null
verdictMatch(text) ==
  LET TokenAt(i) == {tok \in VerdictTokens :
                       MatchAt(text, SkipSpace(text, i + Len(VerdictLabel)), tok)}
      starts == {i \in 1..Len(text) : MatchAt(text, i, VerdictLabel) /\ TokenAt(i) # {}}
  IN IF starts = {} THEN <<>>
     ELSE LET i == Least(starts)
              from == SkipSpace(text, i + Len(VerdictLabel))
              tok == CHOOSE tok \in TokenAt(i) : TRUE
          IN <<SubSeq(text, from, from + Len(tok) - 1)>>

\* the lookahead (?=\n\n|ANALYSIS:) at position i
SummaryAhead(text, i) == MatchAt(text, i, BlankLine) \/ MatchAt(text, i, AnalysisLabel)

\* responseText.match(/SUMMARY:\s*(.+?)(?=\n\n|ANALYSIS:)/is): the leftmost
\* label; \s* gives back as little as it must; the group is the shortest one
\* the lookahead accepts
summaryMatch(text) ==
  LET Ends(from) == {e \in from..Len(text) : SummaryAhead(text, e + 1)}
      Froms(i) == {from \in (i + Len(SummaryLabel))..SkipSpace(text, i + Len(SummaryLabel)) :
                     Ends(from) # {}}
      starts == {i \in 1..Len(text) : MatchAt(text, i, SummaryLabel) /\ Froms(i) # {}}
  IN IF starts = {} THEN <<>>
     ELSE LET from == Greatest(Froms(Least(starts)))
          IN <<SubSeq(text, from, Least(Ends(from)))>>

\* responseText.match(/ANALYSIS:\s*([\s\S]+)$/i): the leftmost label that has a
\* character after it; \s* gives one back when only white space follows
analysisMatch(text) ==
  LET starts == {i \in 1..Len(text) :
                   MatchAt(text, i, AnalysisLabel) /\ i + Len(AnalysisLabel) <= Len(text)}
  IN IF starts = {} THEN <<>>
     ELSE LET from == SkipSpace(text, Least(starts) + Len(AnalysisLabel))
          IN <<SubSeq(text, IF from > Len(text) THEN Len(text) ELSE from, Len(text))>>

\* variant: the matched token is returned as the model wrote it
VerdictOfAsWritten(match) == IF match = <<>> THEN DefaultVerdict ELSE match[1]

\* verdictMatch?.[1]?.toLowerCase() || 'caution'
VerdictOf(match) == IF match = <<>> THEN DefaultVerdict ELSE toLowerCase(match[1])

\* variant: the summary is not trimmed
SummaryOfUntrimmed(match) ==
  IF match = <<>> \/ match[1] = <<>> THEN DefaultSummary ELSE match[1]

\* summaryMatch?.[1]?.trim() || 'Analysis complete.'
SummaryOf(match) ==
  IF match = <<>> \/ trim(match[1]) = <<>> THEN DefaultSummary ELSE trim(match[1])

\* analysisMatch?.[1]?.trim() || responseText
AnalysisOf(match, text) ==
  IF match = <<>> \/ trim(match[1]) = <<>> THEN text ELSE trim(match[1])

\* the 200 response built from the model's text
AnalysisResult(text) ==
  [status |-> 200, error |-> "", verdict |-> VerdictOf(verdictMatch(text)),
   summary |-> SummaryOf(summaryMatch(text)),
   analysis |-> AnalysisOf(analysisMatch(text), text)]

\* -- model texts: the three sections with and without extra white space
VerdictsWritten == {<<"a", "v", "o", "i", "d">>, <<"S", "A", "F", "E">>, <<"C", "a", "u", "t", "i", "o", "n">>}
SummariesWritten == {<<"o", "k">>, <<"a", " ", "b">>, <<"a", "\n", "b">>}
AnalysesWritten == {<<"x">>, <<"s", " ", "S", "U", "M", "M", "A", "R", "Y", ":", " ", "z", "\n", "\n", "A", "N", "A", "L", "Y", "S", "I", "S", ":", " ", "w">>,
                    <<"#", "#", " ", "p", "\n", "\n", "-", " ", "q">>}
Gaps == {<<>>, <<" ">>, <<"\n", " ", " ">>}
Separators == {<<"\n">>, <<" ", "\n", "\n">>}

ThreeSections(v, sm, b, gap, sep) ==
  (IF Len(gap) > 1 THEN gap ELSE <<>>)
    \o <<"V", "E", "R", "D", "I", "C", "T", ":">> \o gap \o v \o sep
    \o <<"S", "U", "M", "M", "A", "R", "Y", ":">> \o gap \o sm \o sep
    \o <<"A", "N", "A", "L", "Y", "S", "I", "S", ":">> \o gap \o b \o (IF Len(sep) > 1 THEN sep ELSE <<>>)

\* texts with sections missing, empty, repeated, or in lower case
OtherTexts ==
  { <<>>,
    <<" ">>,
    <<"V", "E", "R", "D", "I", "C", "T", ":", " ", "s", "a", "f", "e", "\n", "S", "U", "M", "M", "A", "R", "Y", ":", " ", "o", "k">>,
    <<"S", "U", "M", "M", "A", "R", "Y", ":", " ", "\n", "A", "N", "A", "L", "Y", "S", "I", "S", ":", " ", "p", "\n", "\n", "q">>,
    <<"S", "U", "M", "M", "A", "R", "Y", ":", "\n", "\n", "A", "N", "A", "L", "Y", "S", "I", "S", ":", " ", "x">>,
    <<"V", "E", "R", "D", "I", "C", "T", ":", " ", "m", "a", "y", "b", "e", "\n", "V", "E", "R", "D", "I", "C", "T", ":", "a", "v", "o", "i", "d">>,
    <<"A", "N", "A", "L", "Y", "S", "I", "S", ":", " ">>,
    <<"A", "N", "A", "L", "Y", "S", "I", "S", ":">>,
    <<"x", " ", "A", "N", "A", "L", "Y", "S", "I", "S", ":", " ", "a", " ", "A", "N", "A", "L", "Y", "S", "I", "S", ":", " ", "b">>,
    <<"S", "U", "M", "M", "A", "R", "Y", ":", " ", "a", "\n", "\n", "b", "\n", "A", "N", "A", "L", "Y", "S", "I", "S", ":", " ", "c">>,
    <<"V", "E", "R", "D", "I", "C", "T", ":", " ", "u", "n", "s", "a", "f", "e">>,
    <<"V", "E", "R", "D", "I", "C", "T", ":", " ", "s", "a", "f", "e", "l", "y", "\n", "S", "U", "M", "M", "A", "R", "Y", ":", " ", "s", " ", "A", "N", "A", "L", "Y", "S", "I", "S", ":">>,
    <<"v", "e", "r", "d", "i", "c", "t", ":", " ", "A", "v", "o", "i", "d", "\n", "s", "u", "m", "m", "a", "r", "y", ":", " ", "s", "\n", "a", "n", "a", "l", "y", "s", "i", "s", ":", " ", "b">>,
    <<"n", "o", " ", "l", "a", "b", "e", "l", "s">>,
    <<"S", "U", "M", "M", "A", "R", "Y", ":", " ", "o", "k", "\n">> }

TextOutcomes ==
  {[kind |-> "text", text |-> ThreeSections(v, sm, b, gap, sep), made |-> <<v, sm, b>>,
    error |-> NoError] :
      v \in VerdictsWritten, sm \in SummariesWritten, b \in AnalysesWritten,
      gap \in Gaps, sep \in Separators}
    \cup {[kind |-> "text", text |-> t, made |-> <<>>, error |-> NoError] : t \in OtherTexts}

\* what anthropic.messages.create throws: an Anthropic.APIError with its status
\* (0: undefined) or another exception, each with some message
ThrownErrors ==
  {[class |-> "APIError", status |-> st, message |-> m] :
      st \in {401, 429, 500, 0}, m \in {"detail one", "detail two"}}
    \cup {[class |-> "Error", status |-> st, message |-> m] :
      st \in {401, 0}, m \in {"detail one", "detail two"}}

UpstreamOutcomes ==
  TextOutcomes
    \cup {[NoOutcome EXCEPT !.kind = "no_text"]}
    \cup {[NoOutcome EXCEPT !.kind = "throws", !.error = e] : e \in ThrownErrors}

\* variant: the upstream status is passed on to the caller
AnalyzeCatchPassingStatus(error) ==
  IF error.class = "APIError" /\ error.status # 0
    THEN ErrorResponse(error.status, "Analysis service unavailable")
    ELSE ErrorResponse(500, "Failed to analyze image. Please try again.")

\* the catch block of /api/analyze
AnalyzeCatch(error) ==
  IF error.class = "APIError"
    THEN IF error.status = 401 THEN ErrorResponse(500, "Service configuration error")
         ELSE IF error.status = 429
           THEN ErrorResponse(503, "Service temporarily busy. Please try again.")
         ELSE ErrorResponse(503, "Analysis service unavailable")
    ELSE ErrorResponse(500, "Failed to analyze image. Please try again.")

\* the 200 responses to the explored texts, computed once
AnalysisResults == [t \in {o.text : o \in TextOutcomes} |-> AnalysisResult(t)]

\* anthropic.messages.create has resolved or thrown: the handler answers
AnalyzeModelReturns(outcome) ==
  /\ run.pc = "upstream"
  /\ run' = [run EXCEPT !.pc = "done", !.outcome = outcome,
               !.response = CASE outcome.kind = "text" -> AnalysisResults[outcome.text]
                              [] outcome.kind = "no_text" ->
                                   ErrorResponse(500, "No response from Claude")
                              [] OTHER -> AnalyzeCatch(outcome.error)]
  /\ UNCHANGED <<apiKey, inflight, lastResponse, twin, rlVars, pushVars, pageVars>>

\* -- the catch blocks of the other handlers
\* variant: the message of the caught exception is passed on to the caller
MealsCatchEchoing(error) ==
  IF error.class = "APIError" THEN ErrorResponse(503, error.message)
  ELSE ErrorResponse(500, "Failed to generate meals. Please try again.")

\* the catch block of /api/meals
MealsCatch(error) ==
  IF error.class = "SyntaxError"
    THEN ErrorResponse(500, "Failed to generate meals. Please try again.")
  ELSE IF error.class = "APIError"
    THEN IF error.status = 429
           THEN ErrorResponse(503, "Service temporarily busy. Please try again.")
           ELSE ErrorResponse(503, "Meal service unavailable")
  ELSE ErrorResponse(500, "Failed to generate meals. Please try again.")

\* POST /api/push/send: the catch block, and the answer when sendPushNotification
\* caught the rejection of webPush.sendNotification and returned false
SendCatch(error) == ErrorResponse(500, "Failed to send notification")

\* the catch blocks of POST and DELETE /api/push/subscribe
SubscribeCatch(error) == ErrorResponse(500, "Failed to save subscription")

UnsubscribeCatch(error) == ErrorResponse(500, "Failed to remove subscription")

CatchOf(route, error) ==
  CASE route = "analyze" -> AnalyzeCatch(error)
    [] route = "meals" -> MealsCatch(error)
    [] route = "send" -> SendCatch(error)
    [] route = "subscribe" -> SubscribeCatch(error)
    [] OTHER -> UnsubscribeCatch(error)

ErrorMessages == {"detail one", "detail two"}

\* the exceptions the try block of each handler can throw
CaughtErrors(route) ==
  CASE route = "analyze" -> ThrownErrors
    [] route = "meals" ->
         ThrownErrors \cup {[class |-> "SyntaxError", status |-> 0, message |-> m] :
                               m \in ErrorMessages}
    [] route = "send" ->
         {[class |-> c, status |-> 0, message |-> m] :
            c \in {"SyntaxError", "TypeError", "WebPushError"}, m \in ErrorMessages}
    [] OTHER ->
         {[class |-> c, status |-> 0, message |-> m] :
            c \in {"SyntaxError", "TypeError"}, m \in ErrorMessages}

CatchingRoutes == {"analyze", "meals", "send", "subscribe", "unsubscribe"}

\* the try block of the handler of `route` throws: e1 in the followed execution,
\* e2, of the same class and status, in the second one
HandlerThrows(route, e1, e2) ==
  /\ run.pc \in {"idle", "done"}
  /\ e1.class = e2.class /\ e1.status = e2.status
  /\ run' = [NoRun EXCEPT !.route = route, !.pc = "caught",
               !.outcome = [NoOutcome EXCEPT !.kind = "throws", !.error = e1]]
  /\ twin' = [NoRun EXCEPT !.route = route, !.pc = "caught",
                !.outcome = [NoOutcome EXCEPT !.kind = "throws", !.error = e2]]
  /\ UNCHANGED <<apiKey, inflight, lastResponse, rlVars, pushVars, pageVars>>

\* the catch block answers, in both executions
HandlerCatches ==
  /\ run.pc = "caught"
  /\ run' = [run EXCEPT !.pc = "done", !.response = CatchOf(run.route, run.outcome.error)]
  /\ twin' = [twin EXCEPT !.pc = "done", !.response = CatchOf(twin.route, twin.outcome.error)]
  /\ UNCHANGED <<apiKey, inflight, lastResponse, rlVars, pushVars, pageVars>>

\* -- one request to /api/meals followed from its arrival to its response
\* the text of MEAL_PROMPT before and after the placeholder {MEAL_TYPE}
PromptHead == <<"MEAL_PROMPT before {MEAL_TYPE}">>
PromptTail == <<"MEAL_PROMPT after {MEAL_TYPE}">>
Placeholder == <<"{", "M", "E", "A", "L", "_", "T", "Y", "P", "E", "}">>

\* the replacement string of String.prototype.replace with its patterns
\* expanded: $$ is $, $& the matched text, $' the text after it (the text
\* before it is not asked for by the replacements explored)
RECURSIVE expandReplacement(_)
expandReplacement(str) ==
  IF Len(str) < 2 \/ Head(str) # "$" THEN
    IF str = <<>> THEN <<>> ELSE <<Head(str)>> \o expandReplacement(Tail(str))
  ELSE LET rest == expandReplacement(SubSeq(str, 3, Len(str)))
       IN CASE str[2] = "$" -> <<"$">> \o rest
            [] str[2] = "&" -> Placeholder \o rest
            [] str[2] = "'" -> PromptTail \o rest
            [] OTHER -> <<"$">> \o expandReplacement(Tail(str))

\* MEAL_PROMPT.replace('{MEAL_TYPE}', mealType)
MealPrompt(mealType) == PromptHead \o expandReplacement(mealType) \o PromptTail

\* String(mealType).toLowerCase().trim()
normalizedMealType(body) == trim(toLowerCase(body.mealType))

\* meal types as String(mealType) gives them, also for a mealType that is a
\* one-element array
FollowedMealTypes ==
  MealTypes \cup
  { <<"S", "n", "a", "c", "k", "s", "\n">>, <<"\t", "d", "i", "n", "n", "e", "r", " ", " ">>,
    <<"$", "&">>, <<"l", "u", "n", "c", "h", "$", "'">>,
    <<"l", "u", "n", "c", "h", ",", "d", "i", "n", "n", "e", "r">>,
    <<"s", "n", "a", "c", "k">>, <<" ">> }

FollowedMealsBodies ==
  {[parses |-> TRUE, mealType |-> m] : m \in FollowedMealTypes}
    \cup {[parses |-> FALSE, mealType |-> <<>>]}

\* -- JSON.parse on the characters of a text without backslashes and fractions
NoJson == [type |-> "none", items |-> <<>>]

\* a JSON value: its type and, by type, its members (key and value), its
\* elements, or its characters
JsonValue(type, items) == [type |-> type, items |-> items]

Parsed(value, next) == [ok |-> TRUE, value |-> value, next |-> next]

ParseFails == [ok |-> FALSE, value |-> NoJson, next |-> 0]

Digits == {"0", "1", "2", "3", "4", "5", "6", "7", "8", "9"}
Literals == {<<"t", "r", "u", "e">>, <<"f", "a", "l", "s", "e">>, <<"n", "u", "l", "l">>}

ExactAt(text, i, word) ==
  /\ i + Len(word) - 1 <= Len(text)
  /\ SubSeq(text, i, i + Len(word) - 1) = word

RECURSIVE SkipDigits(_, _)
SkipDigits(text, i) ==
  IF i <= Len(text) /\ text[i] \in Digits THEN SkipDigits(text, i + 1) ELSE i

\* a string that opens at position i: it runs to the next quote and holds no
\* control character
parseString(text, i) ==
  LET closes == {j \in (i + 1)..Len(text) : text[j] = "\""}
  IN IF closes = {} THEN ParseFails
     ELSE LET j == Least(closes)
          IN IF \E k \in (i + 1)..(j - 1) : text[k] \in {"\n", "\t"} THEN ParseFails
             ELSE Parsed(JsonValue("string", SubSeq(text, i + 1, j - 1)), j + 1)

\* an integer that starts at position i: no leading zero
parseNumber(text, i) ==
  LET from == IF text[i] = "-" THEN i + 1 ELSE i
      to == SkipDigits(text, from)
  IN IF to = from \/ (text[from] = "0" /\ to > from + 1) THEN ParseFails
     ELSE Parsed(JsonValue("number", SubSeq(text, i, to - 1)), to)

RECURSIVE parseValue(_, _)
RECURSIVE parseMembers(_, _, _)
RECURSIVE parseElements(_, _, _)
\* the value that starts at or after position `at`
parseValue(text, at) ==
  LET i == SkipSpace(text, at)
      inside == SkipSpace(text, i + 1)
  IN IF i > Len(text) THEN ParseFails
     ELSE CASE text[i] = "{" ->
                 IF inside <= Len(text) /\ text[inside] = "}"
                   THEN Parsed(JsonValue("object", <<>>), inside + 1)
                   ELSE parseMembers(text, inside, <<>>)
            [] text[i] = "[" ->
                 IF inside <= Len(text) /\ text[inside] = "]"
                   THEN Parsed(JsonValue("array", <<>>), inside + 1)
                   ELSE parseElements(text, inside, <<>>)
            [] text[i] = "\"" -> parseString(text, i)
            [] text[i] \in Digits \cup {"-"} -> parseNumber(text, i)
            [] OTHER ->
                 IF \E word \in Literals : ExactAt(text, i, word)
                   THEN LET word == CHOOSE w \in Literals : ExactAt(text, i, w)
                        IN Parsed(JsonValue("literal", word), i + Len(word))
                   ELSE ParseFails

\* the members of an object from position i on, `members` already read
parseMembers(text, i, members) ==
  IF i > Len(text) \/ text[i] # "\"" THEN ParseFails
  ELSE LET key == parseString(text, i)
           colon == SkipSpace(text, key.next)
           val == parseValue(text, colon + 1)
           after == SkipSpace(text, val.next)
           all == Append(members, [key |-> key.value.items, value |-> val.value])
       IN IF ~key.ok THEN ParseFails
          ELSE IF colon > Len(text) \/ text[colon] # ":" THEN ParseFails
          ELSE IF ~val.ok \/ after > Len(text) THEN ParseFails
          ELSE IF text[after] = "}" THEN Parsed(JsonValue("object", all), after + 1)
          ELSE IF text[after] = "," THEN parseMembers(text, SkipSpace(text, after + 1), all)
          ELSE ParseFails

\* the elements of an array from position i on, `elements` already read
parseElements(text, i, elements) ==
  LET val == parseValue(text, i)
      after == SkipSpace(text, val.next)
      all == Append(elements, val.value)
  IN IF ~val.ok \/ after > Len(text) THEN ParseFails
     ELSE IF text[after] = "]" THEN Parsed(JsonValue("array", all), after + 1)
     ELSE IF text[after] = "," THEN parseElements(text, SkipSpace(text, after + 1), all)
     ELSE ParseFails

\* JSON.parse(text): one value and white space around it, else a SyntaxError
JSONparse(text) ==
  LET val == parseValue(text, 1)
  IN IF val.ok /\ SkipSpace(text, val.next) > Len(text) THEN val ELSE ParseFails

\* what the model may answer: the requested JSON, other JSON, and text that is
\* not JSON (inside a code fence, drawn with ~, with a preamble, cut off by
\* max_tokens, malformed)
MealsTexts ==
  { <<"{", "\"", "m", "e", "a", "l", "s", "\"", ":", "[", "{", "\"", "n", "a", "m", "e", "\"", ":", "\"", "a", "\"", "}", "]", "}">>,
    <<"{", "\"", "m", "e", "a", "l", "s", "\"", ":", " ", "[", "]", "}">>,
    <<" ", "{", "\"", "m", "e", "a", "l", "s", "\"", ":", "[", "{", "\"", "n", "a", "m", "e", "\"", ":", "\"", "a", "\"", ",", "\"", "t", "i", "p", "s", "\"", ":", "\"", "b", "\"", "}", ",", "{", "\"", "n", "a", "m", "e", "\"", ":", "\"", "c", "\"", "}", "]", "}", "\n">>,
    <<"{", "\"", "n", "\"", ":", "1", ",", "\"", "m", "e", "a", "l", "s", "\"", ":", "[", "{", "\"", "n", "a", "m", "e", "\"", ":", "\"", "a", "\"", "}", "]", "}">>,
    <<"{", "}">>,
    <<"{", "\"", "e", "r", "r", "o", "r", "\"", ":", "\"", "x", "\"", "}">>,
    <<"{", "\"", "m", "e", "a", "l", "s", "\"", ":", "\"", "n", "o", "n", "e", "\"", "}">>,
    <<"{", "\"", "m", "e", "a", "l", "s", "\"", ":", "n", "u", "l", "l", "}">>,
    <<"{", "\"", "m", "e", "a", "l", "s", "\"", ":", "[", "1", "]", ",", "\"", "m", "e", "a", "l", "s", "\"", ":", "2", "}">>,
    <<"{", "\"", "M", "e", "a", "l", "s", "\"", ":", "[", "{", "\"", "n", "a", "m", "e", "\"", ":", "\"", "a", "\"", "}", "]", "}">>,
    <<"[", "{", "\"", "n", "a", "m", "e", "\"", ":", "\"", "a", "\"", "}", "]">>,
    <<"[", "]">>,
    <<"n", "u", "l", "l">>,
    <<"5">>,
    <<"\"", "o", "k", "\"">>,
    <<"~", "~", "~", "j", "s", "o", "n", "\n", "{", "\"", "m", "e", "a", "l", "s", "\"", ":", "[", "]", "}", "\n", "~", "~", "~">>,
    <<"H", "e", "r", "e", ":", " ", "{", "\"", "m", "e", "a", "l", "s", "\"", ":", "[", "]", "}">>,
    <<"{", "\"", "m", "e", "a", "l", "s", "\"", ":", "[", "{", "\"", "n", "a", "m", "e", "\"", ":", "\"", "a", "\"", "}", ",", "{", "\"", "n", "a">>,
    <<"{", "\"", "m", "e", "a", "l", "s", "\"", ":", "[", "]", ",", "}">>,
    <<"{", "\"", "m", "e", "a", "l", "s", "\"", ":", "[", "1", ",", "]", "}">>,
    <<"{", "\"", "m", "e", "a", "l", "s", "\"", ":", "[", "]", "}", " ", "x">>,
    <<"{", "m", "e", "a", "l", "s", ":", "[", "]", "}">>,
    <<"{", "\"", "m", "e", "a", "l", "s", "\"", ":", "[", "0", "1", "]", "}">>,
    <<"{", "\"", "m", "e", "a", "l", "s", "\"", ":", "[", "\"", "a", "\n", "b", "\"", "]", "}">>,
    <<>>,
    <<"-">> }

MealsParses == [t \in MealsTexts |-> JSONparse(t)]

MealsUpstreamOutcomes ==
  {[NoOutcome EXCEPT !.kind = "text", !.text = t] : t \in MealsTexts}
    \cup {[NoOutcome EXCEPT !.kind = "no_text"]}
    \cup {[NoOutcome EXCEPT !.kind = "throws", !.error = e] : e \in ThrownErrors}

\* the 200 response: NextResponse.json(mealsData)
MealsData(value) == [status |-> 200, error |-> "", json |-> value]

\* the response of /api/meals to a body it refuses before the upstream call
MealsRefusal(body, keySet) ==
  IF ~body.parses
    THEN MealsCatch([class |-> "SyntaxError", status |-> 0, message |-> "detail one"])
  ELSE IF body.mealType = <<>> THEN ErrorResponse(400, "Meal type is required")
  ELSE IF normalizedMealType(body) \notin ALLOWED_MEAL_TYPES
    THEN ErrorResponse(400, "Invalid meal type")
  ELSE ErrorResponse(500, "API key not configured")

\* a request to /api/meals arrives while no followed request is under way: the
\* rate-limit gate, then the 429 response or the suspension in request.json()
MealsStart(identifier) ==
  LET out == checkRateLimit(rateLimitStore, identifier, RATE_LIMIT_CONFIG("meals"), now)
  IN /\ run.pc \in {"idle", "done"}
     /\ rateLimitStore' = out.store
     /\ winEnd' = WinEndAfter(identifier, now)
     /\ winPermits' = WinPermitsAfter(identifier, now, out.result)
     /\ run' = IF GateRefuses(out.result)
                 THEN [NoRun EXCEPT !.route = "meals", !.pc = "done",
                         !.response = ErrorResponse(429, "Too many requests. Please try again later.")]
                 ELSE [NoRun EXCEPT !.route = "meals", !.pc = "body"]
     /\ UNCHANGED <<now, apiKey, inflight, lastResponse, twin, sweepDue, lastCall, winCalls,
                    permitLog, pushVars, pageVars>>

\* request.json() has resolved to `body` or thrown: the handler validates it and
\* answers, or calls anthropic.messages.create with the prompt and is suspended
MealsReadBody(body) ==
  /\ run.pc = "body"
  /\ run' = IF MealsValidate(body, apiKey) # 0
              THEN [run EXCEPT !.pc = "done", !.body = body,
                      !.response = MealsRefusal(body, apiKey)]
              ELSE [run EXCEPT !.pc = "upstream", !.body = body, !.calls = @ + 1,
                      !.prompt = MealPrompt(normalizedMealType(body))]
  /\ UNCHANGED <<apiKey, inflight, lastResponse, twin, rlVars, pushVars, pageVars>>

\* anthropic.messages.create has resolved or thrown: the handler answers
MealsModelReturns(outcome) ==
  /\ run.pc = "upstream"
  /\ run' = [run EXCEPT !.pc = "done", !.outcome = outcome,
               !.response = CASE outcome.kind = "text" ->
                                   IF MealsParses[outcome.text].ok
                                     THEN MealsData(MealsParses[outcome.text].value)
                                     ELSE MealsCatch([class |-> "SyntaxError", status |-> 0,
                                                      message |-> "detail one"])
                              [] outcome.kind = "no_text" ->
                                   ErrorResponse(500, "No response from Claude")
                              [] OTHER -> MealsCatch(outcome.error)]
  /\ UNCHANGED <<apiKey, inflight, lastResponse, twin, rlVars, pushVars, pageVars>>

\* ------------------------------------------- push subscription registry
\* strings are sequences of characters
Alphabet == <<"h", "t", "p", "s", ":", "/", "a", "b", "u", "1">>
HexDigits == <<"0", "1", "2", "3", "4", "5", "6", "7", "8", "9", "a", "b", "c", "d", "e", "f">>

charCode(c) == CHOOSE i \in 1..Len(Alphabet) : Alphabet[i] = c

HttpsPrefix == <<"h", "t", "t", "p", "s", ":", "/", "/">>
EndpointA == HttpsPrefix \o <<"a">>
EndpointB == HttpsPrefix \o <<"b">>
PlainHttpEndpoint == <<"h", "t", "t", "p", ":", "/", "/", "a">>
Endpoints == {EndpointA, EndpointB}

\* the key material of a subscription, as characters; <<>> when keys is missing
KeysA == <<"a">>
KeysB == <<"b">>

startsWith(str, prefix) ==
  Len(str) >= Len(prefix) /\ SubSeq(str, 1, Len(prefix)) = prefix

\* a digest standing in for SHA-256: a function of the characters alone, written
\* as 64 hexadecimal digits
RECURSIVE digestState(_, _)
digestState(str, h) ==
  IF str = <<>> THEN h
  ELSE digestState(Tail(str), (h * 31 + charCode(Head(str)) + 7) % 65521)

digestHex(str) ==
  LET h == digestState(str, 17)
  IN [i \in 1..64 |-> HexDigits[(((h * (2 * i + 1) + i) \div 16) % 16) + 1]]

\* the digests of the strings hashed in the explored requests, computed once
DigestTable ==
  [str \in Endpoints \cup {e \o k : e \in Endpoints, k \in {KeysA, KeysB}} |->
     digestHex(str)]

\* crypto.createHash('sha256').update(str).digest('hex')
sha256Hex(str) == IF str \in DOMAIN DigestTable THEN DigestTable[str] ELSE digestHex(str)

\* `user_${hash.substring(0, 16)}`
generateSecureIdFromEndpoint(endpoint) ==
  <<"u", "s", "e", "r", "_">> \o SubSeq(sha256Hex(endpoint), 1, 16)

\* endpoint.charCodeAt(i) for the characters of the explored endpoints
charCodeAt(c) ==
  CASE c = "h" -> 104 [] c = "t" -> 116 [] c = "p" -> 112 [] c = "s" -> 115
    [] c = ":" -> 58 [] c = "/" -> 47 [] c = "a" -> 97 [] c = "b" -> 98
    [] c = "u" -> 117 [] c = "1" -> 49

HalfWord == 65536

\* the loop of generateIdFromEndpoint on a 32-bit hash held as two 16-bit halves:
\* ((hash << 5) - hash) + char is 31 * hash + char, and hash & hash keeps its
\* low 32 bits
RECURSIVE hashLoop(_, _)
hashLoop(str, hash) ==
  IF str = <<>> THEN hash
  ELSE LET lo == hash.lo * 31 + charCodeAt(Head(str))
           hi == hash.hi * 31 + (lo \div HalfWord)
       IN hashLoop(Tail(str), [hi |-> hi % HalfWord, lo |-> lo % HalfWord])

\* String(n) for n >= 0
RECURSIVE decimal(_)
decimal(n) ==
  IF n < 10 THEN <<HexDigits[n + 1]>>
  ELSE Append(decimal(n \div 10), HexDigits[(n % 10) + 1])

\* String(Math.abs(hash)) of the signed 32-bit value the halves hold
absDecimal(hash) ==
  IF hash.hi < HalfWord \div 2 THEN decimal(hash.hi * HalfWord + hash.lo)
  ELSE IF hash.hi = HalfWord \div 2 /\ hash.lo = 0
    THEN <<"2", "1", "4", "7", "4", "8", "3", "6", "4", "8">>
  ELSE decimal((HalfWord - 1 - hash.hi) * HalfWord + (HalfWord - hash.lo))

\* generateIdFromEndpoint of the send route: `user_${Math.abs(hash)}`
generateIdFromEndpoint(endpoint) ==
  <<"u", "s", "e", "r", "_">> \o absDecimal(hashLoop(endpoint, [hi |-> 0, lo |-> 0]))

\* subscriptions a body can carry: what validatePushSubscription reads of them
Subscription(endpoint, keys) ==
  [isObject |-> TRUE, endpointIsString |-> TRUE, endpoint |-> endpoint, keys |-> keys]

ValidSubscriptions == {Subscription(e, k) : e \in Endpoints, k \in {KeysA, KeysB}}

InvalidSubscriptions ==
  { Subscription(PlainHttpEndpoint, KeysA),
    Subscription(EndpointA, <<>>),
    [Subscription(<<>>, KeysA) EXCEPT !.endpointIsString = FALSE],
    [Subscription(<<>>, <<>>) EXCEPT !.isObject = FALSE, !.endpointIsString = FALSE] }

\* caller-chosen ids: <<>> is a missing (falsy) userId; one of them equals the id
\* derived for EndpointA
UserIds == {<<"u", "1">>, generateSecureIdFromEndpoint(EndpointA)}

PushIds == UserIds \cup {generateSecureIdFromEndpoint(e) : e \in Endpoints}

validatePushSubscription(data) ==
  /\ data.isObject
  /\ data.endpointIsString /\ startsWith(data.endpoint, HttpsPrefix)
  /\ data.keys # <<>>

\* variant: save keeps an existing subscription
saveSubscriptionIfAbsent(subs, userId, subscription) ==
  IF userId \in DOMAIN subs THEN subs ELSE MapSet(subs, userId, subscription)

\* subscriptions.set(userId, subscription)
saveSubscription(subs, userId, subscription) == MapSet(subs, userId, subscription)

\* subscriptions.get(userId): <<>> for undefined
getSubscription(subs, userId) ==
  IF userId \in DOMAIN subs THEN <<subs[userId]>> ELSE <<>>

\* subscriptions.delete(userId)
removeSubscription(subs, userId) == MapDelete(subs, {userId})

\* variant: the id is derived from the whole subscription, keys included
SubscribeIdOfSubscription(userId, subscription) ==
  IF userId # <<>> THEN userId
  ELSE generateSecureIdFromEndpoint(subscription.endpoint \o subscription.keys)

\* userId || generateSecureIdFromEndpoint(subscription.endpoint)
SubscribeId(userId, subscription) ==
  IF userId # <<>> THEN userId ELSE generateSecureIdFromEndpoint(subscription.endpoint)

\* lastPush: the operation, its status (routes), what getSubscription returned
\* and what the history says it should (got, expected); for a POST subscribe that
\* stored: the subscription (got), the endpoint, whether it came without userId, whether an earlier such
\* request stored the same endpoint, and whether it replaced another subscription;
\* for a DELETE that removed: what the id held before (got), the endpoint of the
\* body and whether it came without userId; for a POST send: what the lookup
\* returned (got), the endpoint of the body, whether it came without userId and
\* whether it carried a title
NoPush == [op |-> "none", status |-> 0, got |-> <<>>, expected |-> <<>>,
           endpoint |-> <<>>, anonymous |-> FALSE, repeated |-> FALSE, replaced |-> FALSE,
           titled |-> FALSE]

\* saveSubscription(id, subscription) called
SaveSubscription(id, subscription) ==
  /\ subscriptions' = saveSubscription(subscriptions, id, subscription)
  /\ shadow' = [shadow EXCEPT ![id] = <<subscription>>]
  /\ lastPush' = [NoPush EXCEPT !.op = "save"]
  /\ UNCHANGED <<vapidConfigured, anonIds, rlVars, httpVars, pageVars>>

\* getSubscription(id) called
GetSubscription(id) ==
  /\ lastPush' = [NoPush EXCEPT !.op = "get",
                    !.got = getSubscription(subscriptions, id), !.expected = shadow[id]]
  /\ UNCHANGED <<vapidConfigured, subscriptions, shadow, anonIds, rlVars, httpVars, pageVars>>

\* removeSubscription(id) called
RemoveSubscription(id) ==
  /\ subscriptions' = removeSubscription(subscriptions, id)
  /\ shadow' = [shadow EXCEPT ![id] = <<>>]
  /\ lastPush' = [NoPush EXCEPT !.op = "remove"]
  /\ UNCHANGED <<vapidConfigured, anonIds, rlVars, httpVars, pageVars>>

SubscribeBodies ==
  {[parses |-> TRUE, subscription |-> <<sub>>, userId |-> u] :
      sub \in ValidSubscriptions \cup InvalidSubscriptions, u \in UserIds \cup {<<>>}}
    \cup {[parses |-> TRUE, subscription |-> <<>>, userId |-> <<>>],
          [parses |-> FALSE, subscription |-> <<>>, userId |-> <<>>]}

\* variant: the routes take the keys for configured
isConfiguredAlways == TRUE

\* isConfigured(): Boolean(VAPID_PUBLIC_KEY && VAPID_PRIVATE_KEY)
isConfigured == vapidConfigured

\* a response of the push routes that leaves the registry alone
PushReply(op, status) ==
  /\ lastPush' = [NoPush EXCEPT !.op = op, !.status = status]
  /\ UNCHANGED <<subscriptions, shadow, anonIds>>

\* the handler of POST /api/push/subscribe, for what request.json() and the
\* destructuring of subscription and userId give
SubscribeRoute(body) ==
     IF ~isConfigured THEN PushReply("subscribe", 503)
     ELSE IF ~body.parses THEN PushReply("subscribe", 500)
     ELSE IF body.subscription = <<>> THEN PushReply("subscribe", 400)
     ELSE IF ~validatePushSubscription(body.subscription[1]) THEN PushReply("subscribe", 400)
     ELSE LET sub == body.subscription[1]
              id == SubscribeId(body.userId, sub)
              anonymous == body.userId = <<>>
          IN /\ subscriptions' = saveSubscription(subscriptions, id, sub)
             /\ shadow' = [shadow EXCEPT ![id] = <<sub>>]
             /\ anonIds' = IF anonymous
                             THEN [anonIds EXCEPT ![sub.endpoint] = @ \cup {id}]
                             ELSE anonIds
             /\ lastPush' = [NoPush EXCEPT !.op = "subscribe", !.status = 200,
                               !.got = <<sub>>, !.endpoint = sub.endpoint, !.anonymous = anonymous,
                               !.repeated = anonymous /\ anonIds[sub.endpoint] # {},
                               !.replaced = /\ id \in DOMAIN subscriptions
                                            /\ subscriptions[id] # sub]

\* POST /api/push/subscribe
SubscribePost(body) ==
  /\ SubscribeRoute(body)
  /\ UNCHANGED <<vapidConfigured, rlVars, httpVars, pageVars>>

\* variant: DELETE derives the id the way the send route does
UnsubscribeIdOfSendRoute(userId, endpoint) ==
  IF userId # <<>> THEN userId ELSE generateIdFromEndpoint(endpoint)

\* userId || generateSecureIdFromEndpoint(endpoint)
UnsubscribeId(userId, endpoint) ==
  IF userId # <<>> THEN userId ELSE generateSecureIdFromEndpoint(endpoint)

\* bodies of DELETE: userId and endpoint, <<>> when missing
UnsubscribeBodies ==
  {[parses |-> TRUE, userId |-> u, endpoint |-> e] :
      u \in UserIds \cup {<<>>}, e \in Endpoints \cup {<<>>}}
    \cup {[parses |-> FALSE, userId |-> <<>>, endpoint |-> <<>>]}

\* DELETE /api/push/subscribe
SubscribeDelete(body) ==
  /\ IF ~body.parses THEN PushReply("unsubscribe", 500)
     ELSE IF body.userId = <<>> /\ body.endpoint = <<>> THEN PushReply("unsubscribe", 400)
     ELSE LET id == UnsubscribeId(body.userId, body.endpoint)
          IN /\ subscriptions' = removeSubscription(subscriptions, id)
             /\ shadow' = [shadow EXCEPT ![id] = <<>>]
             /\ lastPush' = [NoPush EXCEPT !.op = "unsubscribe", !.status = 200,
                               !.got = getSubscription(subscriptions, id),
                               !.endpoint = body.endpoint,
                               !.anonymous = body.userId = <<>>]
             /\ UNCHANGED anonIds
  /\ UNCHANGED <<vapidConfigured, rlVars, httpVars, pageVars>>

\* GET /api/push/subscribe
SubscribeGet ==
  /\ PushReply("vapid", IF isConfigured THEN 200 ELSE 503)
  /\ UNCHANGED <<vapidConfigured, rlVars, httpVars, pageVars>>

\* -- POST /api/push/send
\* userId || generateIdFromEndpoint(endpoint)
SendId(userId, endpoint) ==
  IF userId # <<>> THEN userId ELSE generateIdFromEndpoint(endpoint)

\* a caller-chosen id that equals what the send route derives for EndpointA
SendUserIds == {generateIdFromEndpoint(EndpointA)}

SendIds == PushIds \cup SendUserIds \cup {generateIdFromEndpoint(e) : e \in Endpoints}

\* bodies of POST send: userId and endpoint (<<>> when missing), whether title
\* is truthy
SendBodies ==
  {[parses |-> TRUE, userId |-> u, endpoint |-> e, title |-> t] :
      u \in SendUserIds \cup {<<>>}, e \in Endpoints \cup {<<>>}, t \in BOOLEAN}
    \cup {[parses |-> FALSE, userId |-> <<>>, endpoint |-> <<>>, title |-> FALSE]}

\* the POST subscribe and DELETE bodies explored together with the send route
SendSubscribeBodies ==
  {[parses |-> TRUE, subscription |-> <<sub>>, userId |-> u] :
      sub \in {Subscription(EndpointA, KeysA), Subscription(EndpointB, KeysB)},
      u \in SendUserIds \cup {<<>>}}

SendUnsubscribeBodies ==
  {[parses |-> TRUE, userId |-> <<>>, endpoint |-> e] : e \in Endpoints}

\* POST /api/push/send; `delivered`: webPush.sendNotification resolved.
\* generateIdFromEndpoint(undefined) throws and the catch answers 500.
SendPost(body, delivered) ==
  /\ IF ~isConfigured THEN PushReply("send", 503)
     ELSE IF ~body.parses THEN PushReply("send", 500)
     ELSE IF ~body.title THEN PushReply("send", 400)
     ELSE IF body.userId = <<>> /\ body.endpoint = <<>> THEN PushReply("send", 500)
     ELSE LET found == getSubscription(subscriptions, SendId(body.userId, body.endpoint))
          IN /\ lastPush' = [NoPush EXCEPT !.op = "send",
                               !.status = IF found = <<>> THEN 404
                                          ELSE IF delivered THEN 200 ELSE 500,
                               !.got = found, !.endpoint = body.endpoint,
                               !.anonymous = body.userId = <<>>, !.titled = TRUE]
             /\ UNCHANGED <<subscriptions, shadow, anonIds>>
  /\ UNCHANGED <<vapidConfigured, rlVars, httpVars, pageVars>>

\* ------------------------------------------------------------ the meals page
\* the days the page is followed over, counted from the day it is opened
MaxDay == 3
\* the requests the page sends to /api/meals
MaxFetches == 3

\* the meal options explored, of breakfast, lunch, dinner and snacks
PageMealTypes == {"breakfast", "lunch"}

\* localStorage keys: the name and the date part (0 when the key has none);
\* getTodayKey() of day d is d
DailyMenuKey(day) == <<"dailyMenu_", day>>
FavoritesKey == <<"mealFavorites", 0>>
PurchasedKey == <<"mealsPurchased", 0>>

Reverse(seq) == [i \in 1..Len(seq) |-> seq[Len(seq) + 1 - i]]

\* the orders in which localStorage.key(i) may enumerate the keys: sorted, and
\* sorted backwards
SortedKeys ==
  [i \in 1..(MaxDay + 1) |-> DailyMenuKey(i - 1)] \o <<FavoritesKey, PurchasedKey>>

KeyOrders == {SortedKeys, Reverse(SortedKeys)}

\* the keys present, as localStorage.key(0), key(1), ... give them
RECURSIVE keysOf(_, _)
keysOf(storage, order) ==
  IF order = <<>> THEN <<>>
  ELSE (IF Head(order) \in DOMAIN storage THEN <<Head(order)>> ELSE <<>>)
         \o keysOf(storage, Tail(order))

\* the loop of cleanOldMenus from index i on
RECURSIVE cleanLoop(_, _, _, _)
cleanLoop(storage, order, keepKeys, i) ==
  LET keys == keysOf(storage, order)
  IN IF i >= Len(keys) THEN storage
     ELSE IF keys[i + 1][1] = "dailyMenu_" /\ keys[i + 1] \notin keepKeys
       THEN cleanLoop(MapDelete(storage, {keys[i + 1]}), order, keepKeys, i + 1)
       ELSE cleanLoop(storage, order, keepKeys, i + 1)

\* cleanOldMenus() run on day `today`
cleanOldMenus(storage, order, today) ==
  cleanLoop(storage, order, {DailyMenuKey(today), DailyMenuKey(today - 1)}, 0)

\* what the last step of the page was: for a selection or refresh, whether it
\* sent a request and what it left on display; and what was known to be
\* fetched for the meal type before it
NoStep == [op |-> "open", mealType |-> "", sent |-> FALSE, shown |-> <<>>, day |-> 0,
           known |-> <<>>]

\* the page as it is opened, unlocked: React state, localStorage, the calls of
\* generateMeals suspended in fetch, and history (sent: requests sent so far;
\* fetched: per meal type the meals last fetched with success and the date key
\* they were fetched for, until a refresh of that type on that day; dropped:
\* per meal type the meals a refresh has removed from the cache)
MealsPage ==
  [name |-> "meals", today |-> 0, keyOrder |-> SortedKeys,
   storage |-> (PurchasedKey :> "true") @@ (FavoritesKey :> "[]"),
   selectedMeal |-> "", isLoading |-> FALSE, recommendations |-> <<>>, error |-> FALSE,
   fetches |-> {}, sent |-> 0, last |-> NoStep,
   fetched |-> [t \in PageMealTypes |-> <<>>], dropped |-> [t \in PageMealTypes |-> {}]]

\* localStorage.getItem(`dailyMenu_${todayKey}`), <<>> for null
getDailyMenu(storage, todayKey) ==
  IF DailyMenuKey(todayKey) \in DOMAIN storage THEN <<storage[DailyMenuKey(todayKey)]>> ELSE <<>>

\* generateMeals(mealType) on page p up to its return or its await of fetch
generateMealsStart(p, mealType) ==
  LET cachedMenu == getDailyMenu(p.storage, p.today)
      cached == IF cachedMenu # <<>> /\ mealType \in DOMAIN cachedMenu[1].meals
                  THEN cachedMenu[1].meals[mealType] ELSE <<>>
  IN IF Len(cached) > 0
       THEN [p EXCEPT !.selectedMeal = mealType, !.recommendations = cached]
       ELSE [p EXCEPT !.selectedMeal = mealType, !.isLoading = TRUE, !.error = FALSE,
               !.recommendations = <<>>, !.sent = @ + 1,
               !.fetches = @ \cup {[mealType |-> mealType, todayKey |-> p.today,
                                    cachedMenu |-> cachedMenu, live |-> TRUE,
                                    batch |-> p.sent + 1]}]

\* the step record of a selection or refresh that took page p to page q
StepOf(op, p, q, mealType) ==
  [op |-> op, mealType |-> mealType, sent |-> q.sent > p.sent, shown |-> q.recommendations,
   day |-> p.today, known |-> p.fetched[mealType]]

\* a meal option is clicked (the buttons are disabled while isLoading)
SelectMeal(mealType) ==
  LET q == generateMealsStart(page, mealType)
  IN /\ page.name = "meals" /\ ~page.isLoading
     /\ q.sent <= MaxFetches
     /\ page' = [q EXCEPT !.last = StepOf("select", page, q, mealType)]
     /\ UNCHANGED <<rlVars, httpVars, pushVars>>

\* the refresh button, shown with the recommendations, is clicked: refreshMeals
\* up to the await of fetch inside generateMeals
RefreshMeals ==
  LET key == DailyMenuKey(page.today)
      mealType == page.selectedMeal
      had == /\ key \in DOMAIN page.storage
             /\ mealType \in DOMAIN page.storage[key].meals
             /\ page.storage[key].meals[mealType] # <<>>
      cleared == IF key \in DOMAIN page.storage
                   THEN [page EXCEPT !.storage[key].meals = MapDelete(@, {mealType})]
                   ELSE page
      q == generateMealsStart(cleared, mealType)
  IN /\ page.name = "meals" /\ ~page.isLoading
     /\ page.selectedMeal # "" /\ page.recommendations # <<>>
     /\ q.sent <= MaxFetches
     /\ page' = [q EXCEPT !.last = StepOf("refresh", page, q, mealType),
                   !.dropped[mealType] =
                     IF had THEN @ \cup {page.storage[key].meals[mealType]} ELSE @,
                   !.fetched[mealType] =
                     IF @ # <<>> /\ @[1].day = page.today THEN <<>> ELSE @]
     /\ UNCHANGED <<rlVars, httpVars, pushVars>>

\* the answers of /api/meals explored: a body with meals, a body with an empty
\* meals array, and everything that makes the try block throw
FetchOutcomes == {"meals", "empty", "failed"}

\* fetch of the suspended call f resolves or rejects and generateMeals runs to
\* its end: display, cache, cleanOldMenus; setState reaches the page on display
\* only when f belongs to it
MealsFetchReturns(f, outcome) ==
  LET mealsWithIds ==
        IF outcome = "meals"
          THEN <<[name |-> f.batch, id |-> <<f.todayKey, f.mealType, 0>>, mealType |-> f.mealType]>>
          ELSE <<>>
      existingMenu == IF f.cachedMenu # <<>> THEN f.cachedMenu[1]
                      ELSE [date |-> f.todayKey, meals |-> EmptyMap]
      menu == [existingMenu EXCEPT !.meals = MapSet(@, f.mealType, mealsWithIds)]
      stored == MapSet(page.storage, DailyMenuKey(f.todayKey), menu)
      shown == IF f.live /\ outcome # "failed" THEN mealsWithIds ELSE page.recommendations
  IN /\ page.name = "meals" /\ f \in page.fetches
     /\ page' = [page EXCEPT
          !.fetches = @ \ {f},
          !.storage = IF outcome = "failed" THEN @
                      ELSE cleanOldMenus(stored, page.keyOrder, page.today),
          !.recommendations = shown,
          !.error = IF f.live /\ outcome = "failed" THEN TRUE ELSE @,
          !.isLoading = IF f.live THEN FALSE ELSE @,
          !.fetched[f.mealType] =
            IF outcome = "meals" THEN <<[day |-> f.todayKey, meals |-> mealsWithIds]>> ELSE @,
          !.last = [NoStep EXCEPT !.op = IF outcome = "failed" THEN "failed" ELSE "stored",
                      !.mealType = f.mealType, !.shown = shown, !.day = page.today]]
     /\ UNCHANGED <<rlVars, httpVars, pushVars>>

\* the page is left by the back link and opened again, or opened in a second
\* tab: a new component with fresh state on the same localStorage, while the
\* suspended calls of the old one go on
MealsRemount ==
  /\ page.name = "meals"
  /\ page.selectedMeal # ""
  /\ page' = [page EXCEPT !.selectedMeal = "", !.isLoading = FALSE, !.recommendations = <<>>,
                !.error = FALSE, !.fetches = {[f EXCEPT !.live = FALSE] : f \in @},
                !.last = [NoStep EXCEPT !.op = "remount", !.day = page.today]]
  /\ UNCHANGED <<rlVars, httpVars, pushVars>>

\* midnight (UTC) passes
DayPasses ==
  /\ page.name = "meals" /\ page.today < MaxDay
  /\ page' = [page EXCEPT !.today = @ + 1, !.last = [NoStep EXCEPT !.op = "day", !.day = page.today + 1]]
  /\ UNCHANGED <<rlVars, httpVars, pushVars>>

vars == <<rlVars, httpVars, pushVars, pageVars>>

\* the state after the modules are loaded, API key and VAPID keys set
Init ==
  /\ now = 0
  /\ rateLimitStore = EmptyMap
  /\ sweepDue = SweepIntervalMs
  /\ lastCall = NoCall
  /\ winEnd = [k \in Identifiers |-> -1]
  /\ winCalls = [k \in Identifiers |-> 0]
  /\ winPermits = [k \in Identifiers |-> 0]
  /\ permitLog = [k \in Identifiers |-> [i \in 1..(ConfigOf(k).windowMs + 1) |-> 0]]
  /\ apiKey = TRUE
  /\ inflight = EmptyBag
  /\ lastResponse = NoResponse
  /\ run = NoRun
  /\ twin = NoRun
  /\ vapidConfigured = TRUE
  /\ subscriptions = EmptyMap
  /\ lastPush = NoPush
  /\ shadow = [id \in PushIds |-> <<>>]
  /\ anonIds = [e \in Endpoints |-> {}]
  /\ page = NoPage

Next ==
  \/ Tick
  \/ CleanupSweep
  \/ \E identifier \in Identifiers : CheckRateLimitCall(identifier)

\* the rate limiter called directly
Spec == Init /\ [][Next]_vars

HttpNext ==
  \/ Tick
  \/ CleanupSweep
  \/ AnalyzeGate
  \/ MealsGate
  \/ AnalyzeBody
  \/ MealsBody
  \/ AnalyzeUpstream
  \/ MealsUpstream

\* the rate limiter called by the two route handlers, their requests interleaving
HttpSpecInit ==
  /\ now = 0
  /\ rateLimitStore = EmptyMap
  /\ sweepDue = SweepIntervalMs
  /\ lastCall = NoCall
  /\ winEnd = [k \in Identifiers |-> -1]
  /\ winCalls = [k \in Identifiers |-> 0]
  /\ winPermits = [k \in Identifiers |-> 0]
  /\ permitLog = [k \in Identifiers |-> [i \in 1..(ConfigOf(k).windowMs + 1) |-> 0]]
  /\ apiKey \in BOOLEAN
  /\ inflight = EmptyBag
  /\ lastResponse = NoResponse
  /\ run = NoRun
  /\ twin = NoRun
  /\ vapidConfigured = TRUE
  /\ subscriptions = EmptyMap
  /\ lastPush = NoPush
  /\ shadow = [id \in PushIds |-> <<>>]
  /\ anonIds = [e \in Endpoints |-> {}]
  /\ page = NoPage

HttpSpec == HttpSpecInit /\ [][HttpNext]_vars

PushNext ==
  \/ \E id \in PushIds, sub \in ValidSubscriptions : SaveSubscription(id, sub)
  \/ \E id \in PushIds : GetSubscription(id)
  \/ \E id \in PushIds : RemoveSubscription(id)
  \/ \E body \in SubscribeBodies : SubscribePost(body)
  \/ \E body \in UnsubscribeBodies : SubscribeDelete(body)
  \/ SubscribeGet

\* the push registry and the subscribe route
PushSpecInit ==
  /\ now = 0
  /\ rateLimitStore = EmptyMap
  /\ sweepDue = SweepIntervalMs
  /\ lastCall = NoCall
  /\ winEnd = [k \in Identifiers |-> -1]
  /\ winCalls = [k \in Identifiers |-> 0]
  /\ winPermits = [k \in Identifiers |-> 0]
  /\ permitLog = [k \in Identifiers |-> [i \in 1..(ConfigOf(k).windowMs + 1) |-> 0]]
  /\ apiKey = TRUE
  /\ inflight = EmptyBag
  /\ lastResponse = NoResponse
  /\ run = NoRun
  /\ twin = NoRun
  /\ vapidConfigured \in BOOLEAN
  /\ subscriptions = EmptyMap
  /\ lastPush = NoPush
  /\ shadow = [id \in PushIds |-> <<>>]
  /\ anonIds = [e \in Endpoints |-> {}]
  /\ page = NoPage

PushSpec == PushSpecInit /\ [][PushNext]_vars

SendNext ==
  \/ \E body \in SendSubscribeBodies : SubscribePost(body)
  \/ \E body \in SendUnsubscribeBodies : SubscribeDelete(body)
  \/ \E body \in SendBodies, delivered \in BOOLEAN : SendPost(body, delivered)

\* the subscribe route and the send route on one registry
SendSpecInit ==
  /\ now = 0
  /\ rateLimitStore = EmptyMap
  /\ sweepDue = SweepIntervalMs
  /\ lastCall = NoCall
  /\ winEnd = [k \in Identifiers |-> -1]
  /\ winCalls = [k \in Identifiers |-> 0]
  /\ winPermits = [k \in Identifiers |-> 0]
  /\ permitLog = [k \in Identifiers |-> [i \in 1..(ConfigOf(k).windowMs + 1) |-> 0]]
  /\ apiKey = TRUE
  /\ inflight = EmptyBag
  /\ lastResponse = NoResponse
  /\ run = NoRun
  /\ twin = NoRun
  /\ vapidConfigured \in BOOLEAN
  /\ subscriptions = EmptyMap
  /\ lastPush = NoPush
  /\ shadow = [id \in SendIds |-> <<>>]
  /\ anonIds = [e \in Endpoints |-> {}]
  /\ page = NoPage

SendSpec == SendSpecInit /\ [][SendNext]_vars

AnalyzeNext ==
  \/ \E identifier \in RequestIdentifiers("analyze") : AnalyzeStart(identifier)
  \/ \E body \in FollowedBodies : AnalyzeReadBody(body)
  \/ \E outcome \in UpstreamOutcomes : AnalyzeModelReturns(outcome)

\* requests to /api/analyze followed one at a time from arrival to response
AnalyzeSpecInit ==
  /\ now = 0
  /\ rateLimitStore = EmptyMap
  /\ sweepDue = SweepIntervalMs
  /\ lastCall = NoCall
  /\ winEnd = [k \in Identifiers |-> -1]
  /\ winCalls = [k \in Identifiers |-> 0]
  /\ winPermits = [k \in Identifiers |-> 0]
  /\ permitLog = [k \in Identifiers |-> [i \in 1..(ConfigOf(k).windowMs + 1) |-> 0]]
  /\ apiKey \in BOOLEAN
  /\ inflight = EmptyBag
  /\ lastResponse = NoResponse
  /\ run = NoRun
  /\ twin = NoRun
  /\ vapidConfigured = TRUE
  /\ subscriptions = EmptyMap
  /\ lastPush = NoPush
  /\ shadow = [id \in PushIds |-> <<>>]
  /\ anonIds = [e \in Endpoints |-> {}]
  /\ page = NoPage

AnalyzeSpec == AnalyzeSpecInit /\ [][AnalyzeNext]_vars

ErrorNext ==
  \/ \E route \in CatchingRoutes :
       \E e1 \in CaughtErrors(route), e2 \in CaughtErrors(route) : HandlerThrows(route, e1, e2)
  \/ HandlerCatches

\* the catch blocks of the handlers, each run on two exceptions of one class
ErrorSpecInit ==
  /\ now = 0
  /\ rateLimitStore = EmptyMap
  /\ sweepDue = SweepIntervalMs
  /\ lastCall = NoCall
  /\ winEnd = [k \in Identifiers |-> -1]
  /\ winCalls = [k \in Identifiers |-> 0]
  /\ winPermits = [k \in Identifiers |-> 0]
  /\ permitLog = [k \in Identifiers |-> [i \in 1..(ConfigOf(k).windowMs + 1) |-> 0]]
  /\ apiKey = TRUE
  /\ inflight = EmptyBag
  /\ lastResponse = NoResponse
  /\ run = NoRun
  /\ twin = NoRun
  /\ vapidConfigured = TRUE
  /\ subscriptions = EmptyMap
  /\ lastPush = NoPush
  /\ shadow = [id \in PushIds |-> <<>>]
  /\ anonIds = [e \in Endpoints |-> {}]
  /\ page = NoPage

ErrorSpec == ErrorSpecInit /\ [][ErrorNext]_vars

MealsNext ==
  \/ \E identifier \in RequestIdentifiers("meals") : MealsStart(identifier)
  \/ \E body \in FollowedMealsBodies : MealsReadBody(body)
  \/ \E outcome \in MealsUpstreamOutcomes : MealsModelReturns(outcome)

\* requests to /api/meals followed one at a time from arrival to response
MealsSpecInit ==
  /\ now = 0
  /\ rateLimitStore = EmptyMap
  /\ sweepDue = SweepIntervalMs
  /\ lastCall = NoCall
  /\ winEnd = [k \in Identifiers |-> -1]
  /\ winCalls = [k \in Identifiers |-> 0]
  /\ winPermits = [k \in Identifiers |-> 0]
  /\ permitLog = [k \in Identifiers |-> [i \in 1..(ConfigOf(k).windowMs + 1) |-> 0]]
  /\ apiKey \in BOOLEAN
  /\ inflight = EmptyBag
  /\ lastResponse = NoResponse
  /\ run = NoRun
  /\ twin = NoRun
  /\ vapidConfigured = TRUE
  /\ subscriptions = EmptyMap
  /\ lastPush = NoPush
  /\ shadow = [id \in PushIds |-> <<>>]
  /\ anonIds = [e \in Endpoints |-> {}]
  /\ page = NoPage

MealsSpec == MealsSpecInit /\ [][MealsNext]_vars

VapidNext ==
  \/ \E body \in SubscribeBodies : SubscribePost(body)
  \/ \E body \in UnsubscribeBodies : SubscribeDelete(body)
  \/ SubscribeGet
  \/ \E body \in SendBodies, delivered \in BOOLEAN : SendPost(body, delivered)

\* the three push routes, with and without the VAPID keys
VapidSpecInit ==
  /\ now = 0
  /\ rateLimitStore = EmptyMap
  /\ sweepDue = SweepIntervalMs
  /\ lastCall = NoCall
  /\ winEnd = [k \in Identifiers |-> -1]
  /\ winCalls = [k \in Identifiers |-> 0]
  /\ winPermits = [k \in Identifiers |-> 0]
  /\ permitLog = [k \in Identifiers |-> [i \in 1..(ConfigOf(k).windowMs + 1) |-> 0]]
  /\ apiKey = TRUE
  /\ inflight = EmptyBag
  /\ lastResponse = NoResponse
  /\ run = NoRun
  /\ twin = NoRun
  /\ vapidConfigured \in BOOLEAN
  /\ subscriptions = EmptyMap
  /\ lastPush = NoPush
  /\ shadow = [id \in SendIds |-> <<>>]
  /\ anonIds = [e \in Endpoints |-> {}]
  /\ page = NoPage

VapidSpec == VapidSpecInit /\ [][VapidNext]_vars

MealsPageNext ==
  \/ \E mealType \in PageMealTypes : SelectMeal(mealType)
  \/ RefreshMeals
  \/ \E f \in page.fetches, outcome \in FetchOutcomes : MealsFetchReturns(f, outcome)
  \/ MealsRemount
  \/ DayPasses

\* the meals page in the browser, unlocked, over some days
MealsPageSpecInit ==
  /\ now = 0
  /\ rateLimitStore = EmptyMap
  /\ sweepDue = SweepIntervalMs
  /\ lastCall = NoCall
  /\ winEnd = [k \in Identifiers |-> -1]
  /\ winCalls = [k \in Identifiers |-> 0]
  /\ winPermits = [k \in Identifiers |-> 0]
  /\ permitLog = [k \in Identifiers |-> [i \in 1..(ConfigOf(k).windowMs + 1) |-> 0]]
  /\ apiKey = TRUE
  /\ inflight = EmptyBag
  /\ lastResponse = NoResponse
  /\ run = NoRun
  /\ twin = NoRun
  /\ vapidConfigured = TRUE
  /\ subscriptions = EmptyMap
  /\ lastPush = NoPush
  /\ shadow = [id \in PushIds |-> <<>>]
  /\ anonIds = [e \in Endpoints |-> {}]
  /\ \E order \in KeyOrders : page = [MealsPage EXCEPT !.keyOrder = order]

MealsPageSpec == MealsPageSpecInit /\ [][MealsPageNext]_vars

\* ------------------------------------------------ senders of subscriptions
\* PushSubscription.toJSON(), the object JSON.stringify(subscription) writes:
\* the members endpoint, expirationTime (null) and keys
toJSON(subscription) ==
  [endpoint |-> subscription.endpoint, expirationTime |-> <<>>, keys |-> subscription.keys]

\* request.json() followed by const { subscription, userId } = body, for a body
\* that is a JSON object: a member the object lacks is undefined (<<>>)
Destructure(json) ==
  [parses |-> TRUE,
   subscription |-> IF "subscription" \in DOMAIN json
                      THEN <<Subscription(json.subscription.endpoint, json.subscription.keys)>>
                      ELSE <<>>,
   userId |-> IF "userId" \in DOMAIN json THEN json.userId ELSE <<>>]

\* variant: the service worker wraps the subscription as the page does
WorkerBodyWrapped(subscription) == [subscription |-> toJSON(subscription)]

\* sw.js: body: JSON.stringify(subscription)
WorkerBody(subscription) == toJSON(subscription)

\* medications page: body: JSON.stringify({ subscription })
PageBody(subscription) == [subscription |-> toJSON(subscription)]

\* what a sender keeps of its POST: who sent, the subscription it got from the
\* push manager, the status of the response and whether the registry held
\* that subscription when the response was written
Sent(sender, subscription) ==
  page' = [name |-> "push", sender |-> sender, subscription |-> subscription,
           status |-> lastPush'.status,
           held |-> \E id \in DOMAIN subscriptions' : subscriptions'[id] = subscription]

\* subscribeToPush of the medications page, after GET gave it the public key
subscribeToPush(subscription) ==
  /\ isConfigured
  /\ SubscribeRoute(Destructure(PageBody(subscription)))
  /\ Sent("page", subscription)
  /\ UNCHANGED <<vapidConfigured, rlVars, httpVars>>

\* the pushsubscriptionchange listener of the service worker: the push manager
\* gives a new subscription and the listener posts it, or subscribe rejects and
\* nothing is posted
pushsubscriptionchange(outcome) ==
  /\ IF outcome = <<>>
       THEN /\ page' = [name |-> "push", sender |-> "nobody", subscription |-> <<>>,
                        status |-> 0, held |-> FALSE]
            /\ UNCHANGED <<subscriptions, shadow, anonIds, lastPush>>
       ELSE /\ SubscribeRoute(Destructure(WorkerBody(outcome[1])))
            /\ Sent("worker", outcome[1])
  /\ UNCHANGED <<vapidConfigured, rlVars, httpVars>>

WorkerNext ==
  \/ \E subscription \in ValidSubscriptions : subscribeToPush(subscription)
  \/ \E outcome \in {<<>>} \cup {<<s>> : s \in ValidSubscriptions} : pushsubscriptionchange(outcome)
  \/ \E body \in UnsubscribeBodies : SubscribeDelete(body)
  \/ SubscribeGet

\* the page and the service worker of one browser profile and the subscribe
\* route, with and without the VAPID keys
WorkerSpecInit ==
  /\ now = 0
  /\ rateLimitStore = EmptyMap
  /\ sweepDue = SweepIntervalMs
  /\ lastCall = NoCall
  /\ winEnd = [k \in Identifiers |-> -1]
  /\ winCalls = [k \in Identifiers |-> 0]
  /\ winPermits = [k \in Identifiers |-> 0]
  /\ permitLog = [k \in Identifiers |-> [i \in 1..(ConfigOf(k).windowMs + 1) |-> 0]]
  /\ apiKey = TRUE
  /\ inflight = EmptyBag
  /\ lastResponse = NoResponse
  /\ run = NoRun
  /\ twin = NoRun
  /\ vapidConfigured \in BOOLEAN
  /\ subscriptions = EmptyMap
  /\ lastPush = NoPush
  /\ shadow = [id \in PushIds |-> <<>>]
  /\ anonIds = [e \in Endpoints |-> {}]
  /\ page = NoPage

WorkerSpec == WorkerSpecInit /\ [][WorkerNext]_vars

\* ------------------------------------------------ medications page reminders
\* the clock of the page in ticks of 20 seconds, counted from 07:59:00 of the
\* day the page is opened, followed to 08:03:00
TicksPerMinute == 3
MaxClock == 12
StartMinute == (7 * 60) + 59
MaxMeds == 2

\* String(n).padStart(2, '0') of a number below 100
padStart2(n) == <<HexDigits[(n \div 10) + 1], HexDigits[(n % 10) + 1]>>

\* the clock minute a tick lies in, as minute of the day
minuteOfDay(clock) == StartMinute + (clock \div TicksPerMinute)

\* currentTime of checkReminders: hours and minutes, two digits each
currentTime(clock) ==
  padStart2(minuteOfDay(clock) \div 60) \o <<":">> \o padStart2(minuteOfDay(clock) % 60)

EightOClock == <<"0", "8", ":", "0", "0">>
OnePastEight == <<"0", "8", ":", "0", "1">>
TwoPastEight == <<"0", "8", ":", "0", "2">>

\* the times a medication of the form can be given
MedTimes == {<<EightOClock>>, <<OnePastEight, TwoPastEight>>}

MedIds == {"m0", "m1"}

includes(times, t) == \E i \in 1..Len(times) : times[i] = t

\* the page after it is opened at `clock` with one stored medication: the
\* interval of the reminder effect runs from then on; `notified` collects the
\* notifications raised (medication, tick), `added` the tick a medication
\* came to the list
MedicationsPage(clock) ==
  [name |-> "medications",
   clock |-> clock,
   medications |-> <<[id |-> "m0", dosage |-> 1, times |-> <<EightOClock, OnePastEight, TwoPastEight>>]>>,
   timerDue |-> clock + TicksPerMinute,
   notified |-> {},
   added |-> [id \in MedIds |-> IF id = "m0" THEN 0 ELSE MaxClock + 1],
   restarts |-> 0]

\* variant: the effect keeps its interval when the list changes
keepInterval(p) == p.timerDue

\* the reminder effect re-runs when medications changes: clearInterval of the
\* old interval, setInterval(checkReminders, 60000) anew
restartInterval(p) == p.clock + TicksPerMinute

\* setMedications(list): the state changes and the effect re-runs
setMedications(p, list) ==
  [p EXCEPT !.medications = list, !.timerDue = restartInterval(p), !.restarts = 1]

\* addMedication of the form, for a new medication with the given times
addMedication(id, times) ==
  /\ page.name = "medications"
  /\ page.added[id] > MaxClock
  /\ Len(page.medications) < MaxMeds
  /\ page' = [setMedications(page, Append(page.medications,
                                          [id |-> id, dosage |-> 1, times |-> times]))
               EXCEPT !.added[id] = page.clock]
  /\ UNCHANGED <<rlVars, httpVars, pushVars>>

\* updateMedication with the dosage of medication i edited in the form:
\* medications.map(...) gives a new list
updateMedication(i, dosage) ==
  /\ page.name = "medications"
  /\ i \in 1..Len(page.medications)
  /\ page' = setMedications(page, [page.medications EXCEPT ![i].dosage = dosage])
  /\ UNCHANGED <<rlVars, httpVars, pushVars>>

\* deleteMedication(id), confirmed: medications.filter((m) => m.id !== id)
deleteMedication(i) ==
  /\ page.name = "medications"
  /\ i \in 1..Len(page.medications)
  /\ page' = setMedications(page, SelectSeq(page.medications,
                                            LAMBDA m : m.id # page.medications[i].id))
  /\ UNCHANGED <<rlVars, httpVars, pushVars>>

\* the interval fires: checkReminders raises a notification for every
\* medication whose times include the current HH:MM (permission is granted)
checkReminders ==
  /\ page.name = "medications"
  /\ page.clock = page.timerDue
  /\ page' = [page EXCEPT
                !.notified = @ \cup { <<page.medications[i].id, page.clock>> :
                                        i \in { k \in 1..Len(page.medications) :
                                                  includes(page.medications[k].times,
                                                           currentTime(page.clock)) } },
                !.timerDue = page.clock + TicksPerMinute]
  /\ UNCHANGED <<rlVars, httpVars, pushVars>>

\* 20 seconds pass; a due interval fires before the clock moves on
ClockTicks ==
  /\ page.name = "medications"
  /\ page.clock < MaxClock
  /\ page.clock < page.timerDue
  /\ page' = [page EXCEPT !.clock = @ + 1]
  /\ UNCHANGED <<rlVars, httpVars, pushVars>>

MedicationsNext ==
  \/ \E id \in MedIds, times \in MedTimes : addMedication(id, times)
  \/ \E i \in 1..MaxMeds, dosage \in 1..2 : updateMedication(i, dosage)
  \/ \E i \in 1..MaxMeds : deleteMedication(i)
  \/ checkReminders
  \/ ClockTicks

\* the medications page opened at some second of the minute 07:59
MedicationsSpecInit ==
  /\ now = 0
  /\ rateLimitStore = EmptyMap
  /\ sweepDue = SweepIntervalMs
  /\ lastCall = NoCall
  /\ winEnd = [k \in Identifiers |-> -1]
  /\ winCalls = [k \in Identifiers |-> 0]
  /\ winPermits = [k \in Identifiers |-> 0]
  /\ permitLog = [k \in Identifiers |-> [i \in 1..(ConfigOf(k).windowMs + 1) |-> 0]]
  /\ apiKey = TRUE
  /\ inflight = EmptyBag
  /\ lastResponse = NoResponse
  /\ run = NoRun
  /\ twin = NoRun
  /\ vapidConfigured = TRUE
  /\ subscriptions = EmptyMap
  /\ lastPush = NoPush
  /\ shadow = [id \in PushIds |-> <<>>]
  /\ anonIds = [e \in Endpoints |-> {}]
  /\ \E clock \in 0..(TicksPerMinute - 1) : page = MedicationsPage(clock)

MedicationsSpec == MedicationsSpecInit /\ [][MedicationsNext]_vars

\* ------------------------------------------------ the store with and without sweeps
\* a second store that takes the same calls at the same times and is never
\* swept, with what the last call found in it and returned from it
Unswept == [name |-> "unswept", store |-> EmptyMap,
            prior |-> NoCall.prior, result |-> NoCall.result]

\* one call of checkRateLimit, made on the store of the module and on the
\* store that is never swept
CheckRateLimitOnBoth(identifier) ==
  /\ page.name = "unswept"
  /\ CheckRateLimitStep(identifier)
  /\ LET out == checkRateLimit(page.store, identifier, ConfigOf(identifier), now)
     IN page' = [page EXCEPT !.store = out.store,
                             !.prior = Lookup(page.store, identifier),
                             !.result = out.result]
  /\ UNCHANGED <<httpVars, pushVars>>

\* the cleanup callback run at some point between the calls
SweepAnytime ==
  /\ SweptKeys(rateLimitStore, now) # {}
  /\ rateLimitStore' = MapDelete(rateLimitStore, SweptKeys(rateLimitStore, now))
  /\ UNCHANGED <<now, sweepDue, lastCall, winEnd, winCalls, winPermits, permitLog,
                 httpVars, pushVars, pageVars>>

SweepNext ==
  \/ Tick
  \/ SweepAnytime
  \/ CleanupSweep
  \/ \E identifier \in Identifiers : CheckRateLimitOnBoth(identifier)

SweepSpecInit ==
  /\ now = 0
  /\ rateLimitStore = EmptyMap
  /\ sweepDue = SweepIntervalMs
  /\ lastCall = NoCall
  /\ winEnd = [k \in Identifiers |-> -1]
  /\ winCalls = [k \in Identifiers |-> 0]
  /\ winPermits = [k \in Identifiers |-> 0]
  /\ permitLog = [k \in Identifiers |-> [i \in 1..(ConfigOf(k).windowMs + 1) |-> 0]]
  /\ apiKey = TRUE
  /\ inflight = EmptyBag
  /\ lastResponse = NoResponse
  /\ run = NoRun
  /\ twin = NoRun
  /\ vapidConfigured = TRUE
  /\ subscriptions = EmptyMap
  /\ lastPush = NoPush
  /\ shadow = [id \in PushIds |-> <<>>]
  /\ anonIds = [e \in Endpoints |-> {}]
  /\ page = Unswept

SweepSpec == SweepSpecInit /\ [][SweepNext]_vars

\* ------------------------------------------------ the gate on the millisecond clock
\* windowMs of both routes: 60 * 1000
RouteWindowMs == 60 * 1000

\* RATE_LIMIT_CONFIG of a route with its window in milliseconds
RouteConfig(route) == [RATE_LIMIT_CONFIG(route) EXCEPT !.windowMs = RouteWindowMs]

MaxGateClock == 121000
MaxGateRequests == 5

\* milliseconds between two requests, and milliseconds the clock advances
\* between checkRateLimit's Date.now() and the handler's Date.now() for the
\* header (the handler runs on between the two without a bound on the time
\* the process may be held up)
GateWaits == {59000, 60000}
GateDelays == {0, 999, 1000}

\* the gate of the two routes on its own: the store, the clock, the number of
\* requests so far and the gate's response to the last request with the
\* advance of the clock inside it
GatePage == [name |-> "gate", store |-> EmptyMap, clock |-> 0, requests |-> 0,
         response |-> Reply(0), delay |-> 0]

\* the first lines of POST /api/analyze and POST /api/meals: checkRateLimit,
\* then 429 with the headers, or the request goes on
GateRequest(route, delay) ==
  /\ page.name = "gate"
  /\ page.requests < MaxGateRequests
  /\ page.clock + delay <= MaxGateClock
  /\ LET out == checkRateLimit(page.store, RateLimitKey(route, "10.0.0.1"),
                               RouteConfig(route), page.clock)
     IN page' = [page EXCEPT
                   !.store = out.store,
                   !.clock = @ + delay,
                   !.requests = @ + 1,
                   !.delay = delay,
                   !.response = IF GateRefuses(out.result)
                                  THEN TooManyRequests(out.result, page.clock + delay)
                                  ELSE Reply(200)]
  /\ UNCHANGED <<rlVars, httpVars, pushVars>>

\* time passes between two requests
GateWait(wait) ==
  /\ page.name = "gate"
  /\ page.clock + wait <= MaxGateClock
  /\ page' = [page EXCEPT !.clock = @ + wait]
  /\ UNCHANGED <<rlVars, httpVars, pushVars>>

GateNext ==
  \/ \E route \in {"analyze", "meals"}, delay \in GateDelays : GateRequest(route, delay)
  \/ \E wait \in GateWaits : GateWait(wait)

GateSpecInit ==
  /\ now = 0
  /\ rateLimitStore = EmptyMap
  /\ sweepDue = SweepIntervalMs
  /\ lastCall = NoCall
  /\ winEnd = [k \in Identifiers |-> -1]
  /\ winCalls = [k \in Identifiers |-> 0]
  /\ winPermits = [k \in Identifiers |-> 0]
  /\ permitLog = [k \in Identifiers |-> [i \in 1..(ConfigOf(k).windowMs + 1) |-> 0]]
  /\ apiKey = TRUE
  /\ inflight = EmptyBag
  /\ lastResponse = NoResponse
  /\ run = NoRun
  /\ twin = NoRun
  /\ vapidConfigured = TRUE
  /\ subscriptions = EmptyMap
  /\ lastPush = NoPush
  /\ shadow = [id \in PushIds |-> <<>>]
  /\ anonIds = [e \in Endpoints |-> {}]
  /\ page = GatePage

GateSpec == GateSpecInit /\ [][GateNext]_vars

\* ------------------------------------------------------------------ claims
RECURSIVE SumSeq(_)
SumSeq(q) == IF q = <<>> THEN 0 ELSE Head(q) + SumSeq(Tail(q))

\* the step is a call of checkRateLimit on `identifier`
CallStep(identifier) ==
  \/ winCalls'[identifier] # winCalls[identifier]
  \/ winEnd'[identifier] # winEnd[identifier]

\* the stored entry of `identifier` is live at the current time
LiveEntry(identifier) ==
  /\ identifier \in DOMAIN rateLimitStore
  /\ rateLimitStore[identifier].resetTime >= now

\* C1: the k-th call of an identifier inside one window, 1 <= k <= maxRequests,
\* returns success = TRUE with remaining = maxRequests - k.
C1_KthCallPermitted ==
  \A id \in Identifiers :
    (lastCall.identifier = id /\ winCalls[id] <= ConfigOf(id).maxRequests)
      => /\ lastCall.result.success
         /\ lastCall.result.remaining = ConfigOf(id).maxRequests - winCalls[id]

\* the maxRequests-th call of a window has just returned remaining = 0
C1_Witness ==
  \E id \in Identifiers :
    /\ lastCall.identifier = id
    /\ winCalls[id] = ConfigOf(id).maxRequests
    /\ lastCall.result.success
    /\ lastCall.result.remaining = 0

\* C2: a call that finds a live entry with count >= maxRequests returns
\* success = FALSE, remaining = 0 and the entry's resetTime, and leaves the whole
\* rate-limit map unchanged.
C2_DenyLeavesStore ==
  [][\A id \in Identifiers :
       (CallStep(id) /\ LiveEntry(id)
          /\ rateLimitStore[id].count >= ConfigOf(id).maxRequests)
         => /\ lastCall'.result = [success |-> FALSE, remaining |-> 0,
                                   resetTime |-> rateLimitStore[id].resetTime]
            /\ rateLimitStore' = rateLimitStore]_vars

\* a second call in a row has been denied in one window, the other identifier
\* having an entry of its own
C2_Witness ==
  \E id \in Identifiers :
    /\ lastCall.identifier = id
    /\ ~lastCall.result.success
    /\ winCalls[id] >= ConfigOf(id).maxRequests + 2
    /\ DOMAIN rateLimitStore = Identifiers

\* C3: a call made strictly after the stored entry's resetTime succeeds whatever
\* the entry's count, stores count = 1 and resetTime = now + windowMs and returns
\* remaining = maxRequests - 1.
C3_ExpiredStartsFresh ==
  [][\A id \in Identifiers :
       (CallStep(id) /\ id \in DOMAIN rateLimitStore
          /\ rateLimitStore[id].resetTime < now)
         => /\ lastCall'.result = [success |-> TRUE,
                                   remaining |-> ConfigOf(id).maxRequests - 1,
                                   resetTime |-> now + ConfigOf(id).windowMs]
            /\ rateLimitStore'[id] = [count |-> 1,
                                      resetTime |-> now + ConfigOf(id).windowMs]]_vars

\* a call has found the expired entry of an identifier that was at its limit
C3_Witness ==
  \E id \in Identifiers :
    /\ lastCall.identifier = id
    /\ lastCall.prior.found
    /\ lastCall.prior.resetTime < lastCall.time
    /\ lastCall.prior.count >= ConfigOf(id).maxRequests
    /\ lastCall.result.success

\* C4: every stored entry has 1 <= count <= maxRequests, and the calls permitted
\* to an identifier during one window never exceed maxRequests.
C4_CountWithinLimit ==
  /\ \A id \in DOMAIN rateLimitStore :
       /\ 1 <= rateLimitStore[id].count
       /\ rateLimitStore[id].count <= ConfigOf(id).maxRequests
  /\ \A id \in Identifiers : winPermits[id] <= ConfigOf(id).maxRequests

\* an identifier has used up its window and a further call was denied
C4_Witness ==
  \E id \in Identifiers :
    /\ LiveEntry(id)
    /\ rateLimitStore[id].count = ConfigOf(id).maxRequests
    /\ winPermits[id] = ConfigOf(id).maxRequests
    /\ winCalls[id] > ConfigOf(id).maxRequests

\* C5: in every time interval of length windowMs the calls permitted to one
\* identifier number at most 2 * maxRequests.
C5_BurstBound ==
  \A id \in Identifiers : SumSeq(permitLog[id]) <= 2 * ConfigOf(id).maxRequests

\* an interval of length windowMs spans a window boundary and holds the calls of
\* a burst: all of the new window's and all but the first of the old one's
C5_Witness ==
  \E id \in Identifiers :
    /\ ConfigOf(id).maxRequests >= 2
    /\ SumSeq(permitLog[id]) = 2 * ConfigOf(id).maxRequests - 1

\* C6: with requests of one client interleaving at their awaits, every gate is
\* one step of read, check and increment: no increment is lost (the entry counts
\* exactly the requests admitted in its window) and at most maxRequests requests
\* are admitted in one window.
C6_GateAtomic ==
  \A id \in Identifiers :
    /\ winPermits[id] <= ConfigOf(id).maxRequests
    /\ (id \in DOMAIN rateLimitStore /\ rateLimitStore[id].resetTime = winEnd[id])
         => rateLimitStore[id].count = winPermits[id]

\* two admitted requests of a route are suspended at once, one in request.json()
\* and one in the upstream call, the window is used up and a further request of
\* the route has just been refused
C6_Witness ==
    /\ BagIn(Suspended("analyze", "body", FALSE), inflight)
    /\ BagIn(Suspended("analyze", "upstream", FALSE), inflight)
    /\ winPermits[<<"analyze", "10.0.0.1">>] = AnalyzeMaxRequests
    /\ lastResponse.route = "analyze"
    /\ lastResponse.refused

\* C7: a request that checkRateLimit refuses is answered 429 with a Retry-After
\* header, is never validated and never reaches the upstream call.
C7_RefusedStopsAtGate ==
  /\ \A req \in BagToSet(inflight) : ~req.refused
  /\ lastResponse.refused
       => /\ lastResponse.response.status = 429
          /\ lastResponse.response.retryAfter # <<>>
          /\ ~lastResponse.validated
          /\ lastResponse.upstream = 0

\* a request to /api/meals has been refused with 429 while admitted requests
\* were suspended
C7_Witness ==
  /\ lastResponse.route = "meals"
  /\ lastResponse.refused
  /\ lastResponse.response.status = 429
  /\ inflight # EmptyBag

\* C8: a run of the cleanup sweep removes exactly the entries with
\* resetTime < now and leaves every other entry as it was.
C8_SweepRemovesExpiredOnly ==
  [][sweepDue' # sweepDue
       => /\ DOMAIN rateLimitStore' =
               {k \in DOMAIN rateLimitStore : ~(rateLimitStore[k].resetTime < now)}
          /\ \A k \in DOMAIN rateLimitStore' : rateLimitStore'[k] = rateLimitStore[k]]_vars

\* a sweep has removed the expired entry of one identifier and kept the entry
\* of another, which ends at the time of the sweep
C8_Witness ==
  /\ sweepDue > SweepIntervalMs
  /\ \E gone \in Identifiers, kept \in Identifiers :
       /\ winEnd[gone] >= 0
       /\ gone \notin DOMAIN rateLimitStore
       /\ kept \in DOMAIN rateLimitStore
       /\ rateLimitStore[kept].resetTime = now

\* C9: getSubscription(id) returns what the last saveSubscription on id stored,
\* and nothing after a removeSubscription on id or when id was never saved; an
\* operation on one id leaves what every other id returns.
C9_RegistryContract ==
  /\ DOMAIN subscriptions \subseteq PushIds
  /\ \A id \in PushIds : getSubscription(subscriptions, id) = shadow[id]
  /\ lastPush.op = "get" => lastPush.got = lastPush.expected

\* getSubscription has returned the subscription saved last under an id, while
\* another id holds a different subscription and a third id holds none
C9_Witness ==
  /\ lastPush.op = "get"
  /\ lastPush.got # <<>>
  /\ \E other \in DOMAIN subscriptions : <<subscriptions[other]>> # lastPush.got
  /\ \E none \in PushIds : none \notin DOMAIN subscriptions

\* C10: the POST subscribe requests that carry one endpoint and no userId all
\* store it under one id, so that after such a request the registry holds, under
\* the ids these requests derived, exactly one entry for the endpoint: the
\* subscription of the last request.
C10_SameEndpointOneEntry ==
  \A e \in Endpoints :
    /\ Cardinality(anonIds[e]) <= 1
    /\ (lastPush.op = "subscribe" /\ lastPush.anonymous /\ lastPush.endpoint = e)
         => /\ Cardinality({k \in anonIds[e] \cap DOMAIN subscriptions :
                              subscriptions[k].endpoint = e}) = 1
            /\ \A k \in anonIds[e] : <<subscriptions[k]>> = lastPush.got

\* a second request for an endpoint, without userId and with other keys, has
\* replaced the subscription the first one stored
C10_Witness ==
  /\ lastPush.op = "subscribe"
  /\ lastPush.status = 200
  /\ lastPush.anonymous
  /\ lastPush.repeated
  /\ lastPush.replaced

\* C11: a DELETE /api/push/subscribe whose body holds only the endpoint E removes
\* what the POST requests without userId stored for E: afterwards the registry
\* has no entry under the id derived from E, nor under any id such a POST used.
C11_DeleteByEndpoint ==
  \A e \in Endpoints :
    (lastPush.op = "unsubscribe" /\ lastPush.status = 200
       /\ lastPush.anonymous /\ lastPush.endpoint = e)
      => /\ generateSecureIdFromEndpoint(e) \notin DOMAIN subscriptions
         /\ \A id \in anonIds[e] : id \notin DOMAIN subscriptions

\* a DELETE with only the endpoint has removed the subscription that a POST
\* without userId had stored for that endpoint
C11_Witness ==
  /\ lastPush.op = "unsubscribe"
  /\ lastPush.status = 200
  /\ lastPush.anonymous
  /\ lastPush.got # <<>>
  /\ lastPush.got[1].endpoint = lastPush.endpoint
  /\ anonIds[lastPush.endpoint] # {}

\* the registry holds a subscription that a POST subscribe without userId stored
\* for endpoint e
StoredAnonymously(e) ==
  \E id \in anonIds[e] \cap DOMAIN subscriptions : subscriptions[id].endpoint = e

\* C12: with push configured and a subscription stored for endpoint E by a POST
\* subscribe without userId, a POST send with {endpoint: E, title} and no userId
\* finds that subscription and does not answer 404.
C12_SendFindsSubscription ==
  \A e \in Endpoints :
    (vapidConfigured /\ lastPush.op = "send" /\ lastPush.anonymous /\ lastPush.titled
       /\ lastPush.endpoint = e /\ StoredAnonymously(e))
      => /\ lastPush.status # 404
         /\ lastPush.got = getSubscription(subscriptions, generateSecureIdFromEndpoint(e))

\* the followed request passed the rate limiter, its body was read and it has
\* been answered
Answered == run.pc = "done" /\ run.response.status # 429 /\ run.body.parses

\* C13: a request to /api/analyze that passes the rate limiter and carries zero
\* images or more than 4 images is answered 400, and no upstream call is made
\* for it.
C13_ImageCountRefused ==
  (Answered /\ (Len(ImageArray(run.body)) = 0 \/ Len(ImageArray(run.body)) > 4))
    => run.response.status = 400 /\ run.calls = 0

\* a request with five images has been answered 400 without an upstream call,
\* on a server without API key
C13_Witness ==
  /\ Answered
  /\ ~apiKey
  /\ Len(ImageArray(run.body)) = 5
  /\ run.response.status = 400
  /\ run.calls = 0

\* the body carries a data URL of MIME type image/bmp
CarriesBmp(body) ==
  \E i \in 1..Len(ImageArray(body)) :
    LET image == ImageArray(body)[i]
    IN image.isString /\ image.matches /\ image.mediaType = "image/bmp"

\* C14 as stated: a request that passes the rate limiter and carries 1 to 4
\* images, one of them a data URL of MIME type image/bmp, is answered 400 whatever
\* the size and the position of that image, and no upstream call is made.
C14_BmpAnswered400 ==
  (Answered /\ Len(ImageArray(run.body)) \in 1..4 /\ CarriesBmp(run.body))
    => run.response.status = 400 /\ run.calls = 0

\* what the handler does with such a request: it answers 400 when the API key
\* is set on the server and 500 when it is not; in both cases no upstream call.
C14_BmpRefused ==
  (Answered /\ Len(ImageArray(run.body)) \in 1..4 /\ CarriesBmp(run.body))
    => /\ run.response.status = IF apiKey THEN 400 ELSE 500
       /\ run.calls = 0

\* a request whose fourth image is an oversized image/bmp data URL, after three
\* good images, has been answered 400 on a server with API key
C14_Witness ==
  /\ Answered
  /\ apiKey
  /\ Len(ImageArray(run.body)) = 4
  /\ ImageArray(run.body)[4] = HugeBmpImage
  /\ run.response.status = 400
  /\ run.calls = 0

\* the decoded size of a data URL: 3/4 of the length of its base64 payload
DecodedSize(image) == ((image.length - PrefixLength(image.mediaType)) * 3) \div 4

\* C15: every image whose decoded size exceeds 10 MB = 10 * 1024 * 1024 bytes is
\* refused with 400: the check of the data URL's length admits no image whose
\* decoded size is above 10 MB.
C15_NoImageOverTenMegabytes ==
  (Answered /\ apiKey /\ Len(ImageArray(run.body)) \in 1..4
     /\ \E i \in 1..Len(ImageArray(run.body)) :
          LET image == ImageArray(run.body)[i]
          IN image.isString /\ image.matches /\ DecodedSize(image) > 10 * 1024 * 1024)
    => run.response.status = 400 /\ run.calls = 0

\* the model's text was made of the three sections
MadeOfSections == run.pc = "done" /\ run.outcome.kind = "text" /\ run.outcome.made # <<>>

HasLabelledVerdict(text) ==
  \E i \in 1..Len(text) :
    /\ MatchAt(text, i, VerdictLabel)
    /\ \E j \in (i + 8)..Len(text) :
         /\ \A k \in (i + 8)..(j - 1) : text[k] \in WhiteSpace
         /\ \E tok \in VerdictTokens : MatchAt(text, j, tok)

\* C17: every 200 response of /api/analyze has verdict safe, caution or avoid;
\* the verdict is caution when the text has no VERDICT: label followed by one of
\* the tokens; summary and analysis are non-empty when the text is non-empty.
C17_ResultShape ==
  (run.pc = "done" /\ run.response.status = 200)
    => /\ run.response.verdict \in VerdictTokens
       /\ ~HasLabelledVerdict(run.outcome.text) => run.response.verdict = DefaultVerdict
       /\ run.outcome.text # <<>>
            => run.response.summary # <<>> /\ run.response.analysis # <<>>

\* a text whose VERDICT: label is followed by no token has been answered 200
\* with verdict caution, the default summary and the whole text as analysis
C17_Witness ==
  /\ run.pc = "done"
  /\ run.response.status = 200
  /\ MatchAt(run.outcome.text, 1, VerdictLabel)
  /\ ~HasLabelledVerdict(run.outcome.text)
  /\ run.response.verdict = DefaultVerdict
  /\ run.response.summary = DefaultSummary
  /\ run.response.analysis = run.outcome.text

\* the text between the first SUMMARY: label and the first blank line or
\* ANALYSIS: label after it, or the end of the text
HasSummaryLabel(text) == \E i \in 1..Len(text) : MatchAt(text, i, SummaryLabel)

SummarySection(text) ==
  LET i == Least({k \in 1..Len(text) : MatchAt(text, k, SummaryLabel)})
      from == i + Len(SummaryLabel)
      stops == {e \in from..(Len(text) + 1) : SummaryAhead(text, e)}
  IN SubSeq(text, from, IF stops = {} THEN Len(text) ELSE Least(stops) - 1)

\* C18: whenever the model text contains a SUMMARY section with text, the
\* summary returned is the trimmed text between SUMMARY: and the first blank
\* line or ANALYSIS: (or the end of the text, when the text ends with its SUMMARY
\* section), and the default 'Analysis complete.' is returned only when the text
\* has no SUMMARY section with text.
C18_SummaryExtracted ==
  (run.pc = "done" /\ run.response.status = 200)
    => LET text == run.outcome.text
           has == HasSummaryLabel(text) /\ trim(SummarySection(text)) # <<>>
       IN /\ has => run.response.summary = trim(SummarySection(text))
          /\ run.response.summary = DefaultSummary => ~has

\* the status the claim gives to a failure of the upstream call, by its class
FailureStatus(error) ==
  CASE error.class = "APIError" /\ error.status = 401 -> 500
    [] error.class = "APIError" /\ error.status = 429 -> 503
    [] error.class = "APIError" /\ error.status \notin {401, 429} -> 503
    [] OTHER -> 500

\* C19: when the upstream call of /api/analyze fails, the status of the response
\* is that of the failure's class (authentication failure 500, upstream rate
\* limit 503, other API errors 503, other exceptions 500); every request that is
\* followed to its end has a response, and at most one upstream call is made
\* for it.
C19_FailureStatus ==
  /\ run.calls <= 1
  /\ run.pc = "done" => run.response.status \in {200, 400, 429, 500, 503}
  /\ (run.pc = "done" /\ run.outcome.kind = "throws")
       => /\ run.response.status = FailureStatus(run.outcome.error)
          /\ run.calls = 1

\* the upstream call has failed with the API's 429 and the request has been
\* answered 503 after one upstream call
C19_Witness ==
  /\ run.pc = "done"
  /\ run.outcome.kind = "throws"
  /\ run.outcome.error.class = "APIError"
  /\ run.outcome.error.status = 429
  /\ run.response.status = 503
  /\ run.calls = 1

\* C20: the response of a handler that caught an exception does not depend on
\* what the exception says: two executions whose exceptions have the same class
\* and status and differ in their message answer with the same status and body.
C20_ErrorBodyIndependent ==
  (run.pc = "done" /\ twin.pc = "done") => run.response = twin.response

\* /api/meals has answered 503 in two executions whose upstream errors carry
\* different messages
C20_Witness ==
  /\ run.pc = "done"
  /\ twin.pc = "done"
  /\ run.route = "meals"
  /\ run.outcome.error.class = "APIError"
  /\ run.outcome.error.message # twin.outcome.error.message
  /\ run.response.status = 503
  /\ twin.response.status = 503

\* the meal types the allow-list is said to hold
ListedMealTypes ==
  { <<"b", "r", "e", "a", "k", "f", "a", "s", "t">>, <<"l", "u", "n", "c", "h">>,
    <<"d", "i", "n", "n", "e", "r">>, <<"s", "n", "a", "c", "k", "s">> }

\* mealType is `tok` in some letter case with nothing but white space around it
NamesMeal(mealType, tok) ==
  \E i \in 1..Len(mealType) :
    /\ MatchAt(mealType, i, tok)
    /\ \A k \in 1..Len(mealType) : (k < i \/ k >= i + Len(tok)) => mealType[k] \in WhiteSpace

\* C21: a request to /api/meals that passed the rate limiter, with the API key
\* set, is passed on to the model exactly when its mealType, lower-cased and
\* trimmed, is breakfast, lunch, dinner or snacks; every other one is answered
\* 400 without upstream call; the prompt sent is the template with that token.
C21_MealTypeAllowList ==
  (run.route = "meals" /\ run.pc \in {"upstream", "done"} /\ run.body.parses /\ apiKey) =>
    LET toks == {tok \in ListedMealTypes : NamesMeal(run.body.mealType, tok)}
    IN /\ run.calls \in {0, 1}
       /\ run.calls = 1 <=> toks # {}
       /\ run.calls = 0 => run.pc = "done" /\ run.response.status = 400 /\ run.prompt = <<>>
       /\ run.calls = 1 => \E tok \in toks : run.prompt = PromptHead \o tok \o PromptTail

\* 'BREAKFAST ' has been passed on as breakfast and the request answered
C21_Witness ==
  /\ run.route = "meals" /\ run.pc = "done" /\ apiKey
  /\ run.body.mealType = <<"B", "R", "E", "A", "K", "F", "A", "S", "T", " ">>
  /\ run.calls = 1
  /\ run.prompt = PromptHead \o <<"b", "r", "e", "a", "k", "f", "a", "s", "t">> \o PromptTail
  /\ run.response.status = 200

\* the JSON value is an object whose member meals is an array
HasMealsArray(value) ==
  /\ value.type = "object"
  /\ LET at == {i \in 1..Len(value.items) : value.items[i].key = <<"m", "e", "a", "l", "s">>}
     IN at # {} /\ value.items[Greatest(at)].value.type = "array"

\* C22: every response of /api/meals is a success body with the meals array or
\* an error body; text of the model that is not JSON is answered 500, and no
\* 200 response lacks the meals array.
C22_MealsResponseShape ==
  (run.route = "meals" /\ run.pc = "done") =>
    /\ run.response.status = 200 => HasMealsArray(run.response.json)
    /\ run.response.status # 200 => run.response.error # ""
    /\ (run.outcome.kind = "text" /\ ~MealsParses[run.outcome.text].ok) =>
         run.response.status = 500

\* C23: without the VAPID key pair, POST and GET /api/push/subscribe and POST
\* /api/push/send answer 503 to every body, by a plain return, and neither
\* change the registry nor look up a subscription to push to.
C23_UnconfiguredAnswers503 ==
  [][(~vapidConfigured /\ lastPush'.op \in {"subscribe", "vapid", "send"}) =>
       /\ lastPush'.status = 503
       /\ lastPush'.got = <<>>
       /\ subscriptions' = subscriptions]_vars

\* each of the three routes has answered 503 without the keys
C23_Witness ==
  /\ ~vapidConfigured
  /\ lastPush.op = "send" /\ lastPush.status = 503
  /\ subscriptions = EmptyMap

\* C24: a meal type fetched with success for today's date key is shown from the
\* cache, without request, when it is selected again that day; after a refresh
\* of it, or under another date key, a selection sends a request; meals that a
\* refresh removed are not shown again.
C24_DailyCache ==
  (page.name = "meals" /\ page.last.op \in {"select", "refresh"}) =>
    LET step == page.last
        cachedToday == step.op = "select" /\ step.known # <<>> /\ step.known[1].day = step.day
    IN /\ cachedToday => ~step.sent /\ step.shown = step.known[1].meals
       /\ ~cachedToday => step.sent
       /\ step.shown \notin page.dropped[step.mealType]

\* C27: when generateMeals has cached a result and run cleanOldMenus, the only
\* dailyMenu_ keys left are today's and yesterday's, and the keys without the
\* prefix are still there.
C27_OnlyTodayAndYesterdayKept ==
  (page.name = "meals" /\ page.last.op = "stored") =>
    /\ \A key \in DOMAIN page.storage :
         key[1] = "dailyMenu_" =>
           key \in {DailyMenuKey(page.today), DailyMenuKey(page.today - 1)}
    /\ {FavoritesKey, PurchasedKey} \subseteq DOMAIN page.storage

\* an image that is not a string, is too long, is no base64 data URL, or has a
\* MIME type other than JPEG, PNG, GIF and WebP
InvalidImage(image) ==
  \/ ~image.isString
  \/ image.length * 100 > MAX_IMAGE_SIZE_BYTES * 134
  \/ ~image.matches
  \/ image.mediaType \notin {"image/jpeg", "image/png", "image/gif", "image/webp"}

HasInvalidImage(body) ==
  \E i \in 1..Len(ImageArray(body)) : InvalidImage(ImageArray(body)[i])

\* C25 as stated: a request that passes the rate limiter and holds an invalid
\* image is answered 400, also when the API key is not set, never 500.
C25_ValidationBeforeConfig ==
  (Answered /\ HasInvalidImage(run.body)) => run.response.status = 400

\* the order the handler has: only the check of the number of images precedes
\* the check of the API key; a request with 1 to 4 images, one of them invalid, is
\* answered 400 when the key is set and 500 for the missing key when it is not;
\* with more than 4 images it is answered 400 either way; no upstream call.
C25_CountThenKeyThenImages ==
  (Answered /\ HasInvalidImage(run.body)) =>
    /\ run.calls = 0
    /\ run.response =
         IF Len(ImageArray(run.body)) > 4 THEN ErrorResponse(400, "Maximum 4 images allowed")
         ELSE IF ~apiKey THEN ErrorResponse(500, "API key not configured on server")
         ELSE [run.response EXCEPT !.status = 400]
    /\ run.response.error # ""

\* a request whose only image is not a string has been answered 500 for the
\* missing API key
C25_Witness ==
  /\ Answered
  /\ ~apiKey
  /\ ImageArray(run.body) = <<NonStringImage>>
  /\ run.response = ErrorResponse(500, "API key not configured on server")
  /\ run.calls = 0

\* C26: after the service worker has handled pushsubscriptionchange and posted
\* the new, valid subscription to a configured server, the server has accepted
\* the request and the registry holds the new subscription.
C26_WorkerSubscriptionAccepted ==
  (page.name = "push" /\ page.sender = "worker" /\ vapidConfigured)
    => page.status = 200 /\ page.held

\* the page's own POST of a subscription is accepted and stored: the handler
\* does accept the wrapped shape
C26_PageSubscriptionAccepted ==
  (page.name = "push" /\ page.sender = "page")
    => page.status = 200 /\ page.held

\* the medication at place i of the list was stored throughout the clock
\* minute that starts at tick `start`, the minute is over, and its HH:MM is
\* one of the medication's times
DueThroughout(i, start) ==
  /\ start % TicksPerMinute = 0
  /\ start + TicksPerMinute <= page.clock
  /\ page.added[page.medications[i].id] <= start
  /\ includes(page.medications[i].times, currentTime(start))

NotifiedWithin(id, start) ==
  \E t \in start..(start + TicksPerMinute - 1) : <<id, t>> \in page.notified

\* C28: while the medications page stays open with permission granted, every
\* stored medication is notified during each clock minute HH:MM of its times
\* that it was stored throughout, also when the list is changed before or
\* during that minute.
C28_NotifiedEachMinute ==
  page.name = "medications" =>
    \A i \in 1..Len(page.medications) : \A start \in TicksPerMinute..MaxClock :
      DueThroughout(i, start) => NotifiedWithin(page.medications[i].id, start)

\* the same for a page whose list was never changed: the interval alone
\* reaches every minute
C28_NotifiedWhileListUntouched ==
  (page.name = "medications" /\ page.restarts = 0) =>
    \A i \in 1..Len(page.medications) : \A start \in TicksPerMinute..MaxClock :
      DueThroughout(i, start) => NotifiedWithin(page.medications[i].id, start)

\* C29: the results of checkRateLimit (success, remaining, resetTime) are the
\* same whether sweeps run at arbitrary points between the calls or never:
\* every call returns what the same call returns from a store that took the
\* same calls at the same times and was never swept.
C29_SweepInvisible ==
  page.name = "unswept" => lastCall.result = page.result

\* a call has found no entry in the swept store where the store that is never
\* swept still held one, and has been permitted
C29_Witness ==
  /\ page.name = "unswept"
  /\ page.prior.found
  /\ ~lastCall.prior.found
  /\ lastCall.result.success
  /\ lastCall.result = page.result

\* C30: on every 429 response of the two routes the Retry-After header is a
\* whole number of seconds from 0 to ceil(windowMs / 1000), also when the clock
\* advances between the limiter's time reading and the handler's own.
C30_RetryAfterInRange ==
  (page.name = "gate" /\ page.response.status = 429)
    => page.response.retryAfter[1] \in 0..CeilDiv(RouteWindowMs, MsPerSecond)

\* the header is never above ceil(windowMs / 1000), whatever the advance
C30_RetryAfterAtMostWindow ==
  (page.name = "gate" /\ page.response.status = 429)
    => page.response.retryAfter[1] <= CeilDiv(RouteWindowMs, MsPerSecond)

\* the header is in range when the clock advances by less than a second
\* between the two readings: Math.ceil of a value above -1 is not negative
C30_RetryAfterInRangeWithinASecond ==
  (page.name = "gate" /\ page.response.status = 429 /\ page.delay < MsPerSecond)
    => page.response.retryAfter[1] \in 0..CeilDiv(RouteWindowMs, MsPerSecond)

====
